---- MODULE Spec2Model ----
(***************************************************************************)
(* A model of go-eg-walker: the causal graph (package causalgraph) and the *)
(* walker / replay engine (package egwalker).                              *)
(*                                                                         *)
(* Go values are modelled as follows.                                      *)
(*   - a slice of LVs or entries: a TLA+ sequence; a []RawVersion, where   *)
(*     nil and empty differ: a record [isNil, list].                       *)
(*   - a map: a function whose DOMAIN is the set of keys present.          *)
(*   - (value, error) results: a record with an err field.                 *)
(*   - EditContext.Items, a slice over a backing array, and the *Item      *)
(*     pointers kept in ItemsByLV: the arrays allocated for the context    *)
(*     (Arrays), the slice length (ItemsLen; the slice always lies at the  *)
(*     start of the array allocated last), and pointers [arr, idx].        *)
(***************************************************************************)
EXTENDS Integers, Sequences, FiniteSets, TLC

----------------------------------------------------------------------------
(* Bounds of the model and the sets inputs are drawn from.                 *)

\* Operations integrated into the walker of Spec (the public operations).
MaxOps == 2
\* Operations of the walker of SpecLocal (local edits only).
MaxLocalOps == 5
\* Operations of the walker of SpecNav (advance, retreat and merge as well).
MaxNavOps == 2
\* Operations of the first walker of SpecReplay.
MaxReplayOps == 2
\* Operations in the graph of SpecMerge.
MaxMergeOps == 3
\* Operations of the first walker of SpecRedeliver; the second walker
\* integrates one more.
MaxRedeliverOps == 2
\* Operations of the walker of SpecCheckout.
MaxCheckoutOps == 2
\* SpecGraph: AddRaw is called on graphs of fewer than MaxGraphLVs versions,
\* with ids of a seq up to MaxSeq and lengths up to MaxRunLen.
MaxGraphLVs == 2
\* SpecRoundTrip: the number of local edits before the retreat.
MaxRoundTripOps == 6
\* SpecAdvance: the number of operations integrated before the advance.
MaxAdvanceOps == 3
\* SpecConcurrentDelete: the number of inserts and deletes before the merge.
MaxConcurrentOps == 4
\* SpecRetreat: the number of operations integrated before the retreat.
MaxRetreatOps == 2
\* SpecQuery: the number of LVs of the graphs the queries are asked on.
MaxQueryLVs == 4
\* SpecSummary, SpecDiff: the number of LVs of the graphs that are summarized.
MaxSummaryLVs == 3
\* SpecIntersect: the number of LVs of the graphs that are intersected with
\* a summary; runs are as long as the graph allows.
MaxIntersectLVs == 3
\* SpecBounds: the number of LVs of the graphs asked about versions outside
\* them.
MaxBoundsLVs == 2
MaxSeq == 1
MaxRunLen == 2
\* Largest position of an insert or delete operation.
MaxPos == 1
\* Most items an edit context holds: a step that would apply an insert to a
\* context of this many items is not taken.
MaxItems == 4

\* Agents of operations; EditAgents where the history is the subject and the
\* identity of the author is not.
Agents == {"A", "B"}
EditAgents == {"A"}
UnknownAgent == "Z"
Contents == {"x", "y"}

\* A []RawVersion: the nil slice, and a slice with the given elements.
NilSlice == [isNil |-> TRUE, list |-> <<>>]

Slice(list) == [isNil |-> FALSE, list |-> list]

----------------------------------------------------------------------------
(* Generic helpers.                                                        *)

Range(s) == {s[i] : i \in 1..Len(s)}

Min(S) == CHOOSE x \in S : \A y \in S : x <= y

RECURSIVE SortSet(_)
SortSet(S) == IF S = {} THEN <<>>
              ELSE LET m == Min(S) IN <<m>> \o SortSet(S \ {m})

\* sort.Search(n, f): binary search for the smallest index in [0, n) at which
\* f is true; f is given as the sequence of its values, f(i) = bs[i + 1].
RECURSIVE sortSearchLoop(_, _, _)
sortSearchLoop(bs, i, j) ==
    IF i < j
    THEN LET h == (i + j) \div 2
         IN IF ~bs[h + 1] THEN sortSearchLoop(bs, h + 1, j)
            ELSE sortSearchLoop(bs, i, h)
    ELSE i

sortSearch(bs) == sortSearchLoop(bs, 0, Len(bs))

----------------------------------------------------------------------------
(* package causalgraph                                                     *)

EmptyMap == [k \in {} |-> 0]

CreateCG == [Heads |-> <<>>, Entries |-> <<>>, AgentToVersion |-> EmptyMap, NextLV |-> 0]

NextLV(cg) == cg.NextLV

NextSeqForAgent(cg, agent) ==
    IF agent \in DOMAIN cg.AgentToVersion /\ Len(cg.AgentToVersion[agent]) > 0
    THEN cg.AgentToVersion[agent][Len(cg.AgentToVersion[agent])].SeqEnd
    ELSE 0

\* [found, idx (1-based index into cg.Entries), offset]
NotFound == [found |-> FALSE, idx |-> 0, offset |-> -1]

findEntryContainingRaw(cg, agent, seq) ==
    IF agent \notin DOMAIN cg.AgentToVersion THEN NotFound
    ELSE LET ces == cg.AgentToVersion[agent]
             idx == sortSearch([i \in 1..Len(ces) |-> ces[i].SeqEnd > seq])
         IN IF idx < Len(ces) /\ ces[idx + 1].Seq <= seq
            THEN LET entryLV == ces[idx + 1].Version
                     hits == {i \in 1..Len(cg.Entries) :
                                 /\ cg.Entries[i].Version = entryLV
                                 /\ seq >= cg.Entries[i].Seq
                                 /\ seq < cg.Entries[i].Seq
                                          + (cg.Entries[i].VEnd - cg.Entries[i].Version)}
                 IN IF hits = {} THEN NotFound
                    ELSE [found |-> TRUE, idx |-> Min(hits),
                          offset |-> seq - cg.Entries[Min(hits)].Seq]
            ELSE NotFound

findEntryContaining(cg, v) ==
    IF v < 0 \/ v >= cg.NextLV THEN NotFound
    ELSE LET idx == sortSearch([i \in 1..Len(cg.Entries) |-> cg.Entries[i].VEnd > v])
         IN IF idx < Len(cg.Entries) /\ cg.Entries[idx + 1].Version <= v
            THEN [found |-> TRUE, idx |-> idx + 1,
                  offset |-> v - cg.Entries[idx + 1].Version]
            ELSE NotFound

\* [found, raw]
LVToRaw(cg, v) ==
    LET result(f) ==
            IF ~f.found THEN [found |-> FALSE, raw |-> [Agent |-> "", Seq |-> 0]]
            ELSE [found |-> TRUE,
                  raw |-> [Agent |-> cg.Entries[f.idx].Agent,
                           Seq |-> cg.Entries[f.idx].Seq + f.offset]]
    IN result(findEntryContaining(cg, v))

\* [found, parents]: the parents part of LVToRawWithParents, which every
\* traversal of the package repeats inline.
ParentsOfLV(cg, v) ==
    LET result(f) ==
            IF ~f.found THEN [found |-> FALSE, parents |-> <<>>]
            ELSE [found |-> TRUE,
                  parents |-> IF f.offset = 0 THEN cg.Entries[f.idx].Parents
                              ELSE <<v - 1>>]
    IN result(findEntryContaining(cg, v))

\* [lv, err]
RawToLV(cg, agent, seq) ==
    LET result(f) ==
            IF ~f.found THEN [lv |-> -1, err |-> TRUE]
            ELSE [lv |-> cg.Entries[f.idx].Version + f.offset, err |-> FALSE]
    IN result(findEntryContainingRaw(cg, agent, seq))

\* [raws, err]; an empty list converts to the nil slice.
LVToRawList(cg, lvs) ==
    IF Len(lvs) = 0 THEN [raws |-> NilSlice, err |-> FALSE]
    ELSE IF \E i \in 1..Len(lvs) : ~LVToRaw(cg, lvs[i]).found
         THEN [raws |-> NilSlice, err |-> TRUE]
         ELSE [raws |-> Slice([i \in 1..Len(lvs) |-> LVToRaw(cg, lvs[i]).raw]),
               err |-> FALSE]

sortLVsAndDedup(lvs) == IF Len(lvs) <= 1 THEN lvs ELSE SortSet(Range(lvs))

\* sort.Slice of the agent's runs by Seq after the append of the new run:
\* the new run goes behind the runs whose Seq is not larger.
InsertClientEntry(ces, ce) ==
    LET k == Cardinality({i \in 1..Len(ces) : ces[i].Seq <= ce.Seq})
    IN SubSeq(ces, 1, k) \o <<ce>> \o SubSeq(ces, k + 1, Len(ces))

\* What a nil *CGEntry stands for in a result.
NoEntry == [Agent |-> "", Seq |-> 0, Version |-> -1, VEnd |-> -1, Parents |-> <<>>]

\* An AddRaw without the check for a duplicate.
IsDuplicateNever(cg, id) == FALSE

\* if _, err := RawToLV(cg, id.Agent, id.Seq); err == nil
IsDuplicate(cg, id) == ~RawToLV(cg, id.Agent, id.Seq).err

\* An AddRaw that takes every parent as known.
HasUnknownParentIgnored(cg, rawParents) == FALSE

\* The loop over rawParents returns at the first one RawToLV does not find.
HasUnknownParent(cg, rawParents) ==
    /\ ~rawParents.isNil
    /\ \E i \in 1..Len(rawParents.list) :
          RawToLV(cg, rawParents.list[i].Agent, rawParents.list[i].Seq).err

\* An AddRaw that allocates one LV whatever the length.
SpanEndOfOne(startLV, length) == startLV + 1

\* endLV := startLV + LV(length)
SpanEnd(startLV, length) == startLV + length

\* [cg, entry, entryNil, err]: the *CGEntry returned (entryNil when it is
\* nil); (nil, nil) signals a duplicate.
AddRaw(cg, id, length, rawParents) ==
    LET fail == [cg |-> cg, entry |-> NoEntry, entryNil |-> TRUE, err |-> TRUE]
    IN
    IF length <= 0 THEN fail
    ELSE IF IsDuplicate(cg, id)
    THEN [cg |-> cg, entry |-> NoEntry, entryNil |-> TRUE, err |-> FALSE]
    ELSE IF HasUnknownParent(cg, rawParents)
    THEN fail
    ELSE
    LET parentLVs == sortLVsAndDedup(
            IF rawParents.isNil THEN cg.Heads
            ELSE [i \in 1..Len(rawParents.list) |->
                     RawToLV(cg, rawParents.list[i].Agent,
                             rawParents.list[i].Seq).lv])
        startLV == cg.NextLV
        endLV == SpanEnd(startLV, length)
        newEntry == [Agent |-> id.Agent, Seq |-> id.Seq, Version |-> startLV,
                     VEnd |-> endLV, Parents |-> parentLVs]
        oldCes == IF id.Agent \in DOMAIN cg.AgentToVersion
                  THEN cg.AgentToVersion[id.Agent] ELSE <<>>
        newCes == InsertClientEntry(oldCes,
                     [Seq |-> id.Seq, SeqEnd |-> id.Seq + length, Version |-> startLV])
        keptHeads == SelectSeq(cg.Heads, LAMBDA h : h \notin Range(parentLVs))
        newHeads == sortLVsAndDedup(
                        keptHeads \o [i \in 1..length |-> startLV + (i - 1)])
        newCG == [Heads |-> newHeads,
                  Entries |-> Append(cg.Entries, newEntry),
                  AgentToVersion |->
                      [a \in (DOMAIN cg.AgentToVersion) \cup {id.Agent} |->
                          IF a = id.Agent THEN newCes ELSE cg.AgentToVersion[a]],
                  NextLV |-> endLV]
    IN [cg |-> newCG, entry |-> newEntry, entryNil |-> FALSE, err |-> FALSE]

\* No version passes the bounds check.
InBoundsNever(cg, v) == FALSE

InBounds(cg, v) == v >= 0 /\ v < cg.NextLV

\* The breadth-first search of VersionContainsLV: [val, err].
RECURSIVE vclSearch(_, _, _, _)
vclSearch(cg, queue, visited, targetLV) ==
    IF queue = <<>> THEN [val |-> FALSE, err |-> FALSE]
    ELSE LET curr == Head(queue)
             rest == Tail(queue)
             seen == visited \cup {curr}
             expand(p) ==
                 IF ~p.found THEN [val |-> FALSE, err |-> TRUE]
                 ELSE IF targetLV \in Range(p.parents)
                 THEN [val |-> TRUE, err |-> FALSE]
                 ELSE vclSearch(cg,
                          rest \o SelectSeq(p.parents,
                                            LAMBDA q : q \notin seen /\ q >= 0),
                          seen, targetLV)
         IN IF curr \in visited THEN vclSearch(cg, rest, visited, targetLV)
            ELSE IF curr < 0 THEN vclSearch(cg, rest, visited \cup {curr}, targetLV)
            ELSE IF curr = targetLV THEN [val |-> TRUE, err |-> FALSE]
            ELSE expand(ParentsOfLV(cg, curr))

\* The loop over the frontier at the head of VersionContainsLV: the first
\* member that is out of bounds or equal to the target decides.
RECURSIVE vclFrontierScan(_, _, _, _)
vclFrontierScan(cg, frontier, i, targetLV) ==
    IF i > Len(frontier) THEN "none"
    ELSE IF ~InBounds(cg, frontier[i]) THEN "err"
    ELSE IF frontier[i] = targetLV THEN "hit"
    ELSE vclFrontierScan(cg, frontier, i + 1, targetLV)

\* Only the members of the frontier themselves are looked at, not their
\* ancestors.
VersionContainsLVShallow(cg, frontier, targetLV) ==
    [val |-> targetLV \in Range(frontier), err |-> FALSE]

\* [val, err]
VersionContainsLV(cg, frontier, targetLV) ==
    IF ~InBounds(cg, targetLV) THEN [val |-> FALSE, err |-> TRUE]
    ELSE LET result(scan) ==
                 IF scan = "err" THEN [val |-> FALSE, err |-> TRUE]
                 ELSE IF scan = "hit" THEN [val |-> TRUE, err |-> FALSE]
                 ELSE IF Len(frontier) = 0 THEN [val |-> FALSE, err |-> FALSE]
                 ELSE vclSearch(cg, frontier, {}, targetLV)
         IN result(vclFrontierScan(cg, frontier, 1, targetLV))

\* The breadth-first walk of SummarizeVersion over the history of the
\* frontier: [lvs, err], lvs being allHistoryLVs.
RECURSIVE svHistory(_, _, _, _)
svHistory(cg, queue, visited, allHistoryLVs) ==
    IF queue = <<>> THEN [lvs |-> allHistoryLVs, err |-> FALSE]
    ELSE LET curr == Head(queue)
             rest == Tail(queue)
             seen == visited \cup {curr}
             expand(p) ==
                 IF ~p.found THEN [lvs |-> {}, err |-> TRUE]
                 ELSE svHistory(cg,
                          rest \o SelectSeq(p.parents,
                                            LAMBDA q : q \notin seen /\ q >= 0),
                          seen, allHistoryLVs \cup {curr})
         IN IF curr \in visited THEN svHistory(cg, rest, visited, allHistoryLVs)
            ELSE IF curr < 0 THEN svHistory(cg, rest, seen, allHistoryLVs)
            ELSE expand(ParentsOfLV(cg, curr))

\* sort.Ints of the sequence numbers of a set of LVs.
RECURSIVE svSortedSeqs(_, _)
svSortedSeqs(cg, lvs) ==
    IF lvs = {} THEN <<>>
    ELSE LET seq(v) == LVToRaw(cg, v).raw.Seq
             m == CHOOSE x \in lvs :
                      \A y \in lvs : seq(x) < seq(y) \/ (seq(x) = seq(y) /\ x <= y)
         IN <<seq(m)>> \o svSortedSeqs(cg, lvs \ {m})

\* One range from the first to the last sequence number.
svRangesMerged(seqs) ==
    IF seqs = <<>> THEN <<>> ELSE << <<seqs[1], seqs[Len(seqs)] + 1>> >>

\* The ranges of one agent: [s, s+1) for each of its sequence numbers.
svRanges(seqs) == [i \in 1..Len(seqs) |-> <<seqs[i], seqs[i] + 1>>]

\* [summary, err]: the summary maps an agent to its list of ranges <<start, end>>.
SummarizeVersion(cg, frontier) ==
    IF Len(frontier) = 0 THEN [summary |-> EmptyMap, err |-> FALSE]
    ELSE IF \E i \in 1..Len(frontier) : frontier[i] < 0 \/ frontier[i] >= cg.NextLV
    THEN [summary |-> EmptyMap, err |-> TRUE]
    ELSE LET agentOf(v) == LVToRaw(cg, v).raw.Agent
             result(h) ==
                 IF h.err THEN [summary |-> EmptyMap, err |-> TRUE]
                 ELSE [summary |->
                          [a \in {agentOf(v) : v \in h.lvs} |->
                              svRanges(svSortedSeqs(cg, {v \in h.lvs : agentOf(v) = a}))],
                       err |-> FALSE]
         IN result(svHistory(cg, frontier, {}, {}))

\* The raw version is within a range of the summary.
diffCovered(to, agent, seq) ==
    /\ agent \in DOMAIN to
    /\ \E i \in 1..Len(to[agent]) : seq >= to[agent][i][1] /\ seq < to[agent][i][2]

\* The loop of Diff over the LVs of one entry: result with the runs of the
\* entry's LVs the summary does not cover appended.
RECURSIVE diffEntryRuns(_, _, _, _, _)
diffEntryRuns(to, entry, lvIter, currentRunStartLV, result) ==
    IF lvIter >= entry.VEnd
    THEN IF currentRunStartLV # -1
         THEN Append(result, [Start |-> currentRunStartLV, End |-> entry.VEnd])
         ELSE result
    ELSE IF ~diffCovered(to, entry.Agent, entry.Seq + (lvIter - entry.Version))
    THEN diffEntryRuns(to, entry, lvIter + 1,
                       IF currentRunStartLV = -1 THEN lvIter ELSE currentRunStartLV,
                       result)
    ELSE diffEntryRuns(to, entry, lvIter + 1, -1,
                       IF currentRunStartLV # -1
                       THEN Append(result, [Start |-> currentRunStartLV, End |-> lvIter])
                       ELSE result)

diffEntireEntryCovered(to, entry) ==
    \A lvIter \in entry.Version..(entry.VEnd - 1) :
        diffCovered(to, entry.Agent, entry.Seq + (lvIter - entry.Version))

\* The loop of Diff over the parents of an entry: [queue, processedInQueue].
RECURSIVE diffParents(_, _, _, _, _, _)
diffParents(cg, to, parents, i, queue, processedInQueue) ==
    IF i > Len(parents)
    THEN [queue |-> queue, processedInQueue |-> processedInQueue]
    ELSE LET p == parents[i]
             pIsCoveredByTo(pRaw) ==
                 pRaw.found /\ diffCovered(to, pRaw.raw.Agent, pRaw.raw.Seq)
         IN IF p \notin processedInQueue /\ p >= 0 /\ ~pIsCoveredByTo(LVToRaw(cg, p))
            THEN diffParents(cg, to, parents, i + 1, Append(queue, p),
                             processedInQueue \cup {p})
            ELSE diffParents(cg, to, parents, i + 1, queue, processedInQueue)

\* The traversal of Diff: [ranges, err], ranges being result before it is
\* sorted and merged.
RECURSIVE diffWalk(_, _, _, _, _, _)
diffWalk(cg, to, queue, visitedForTraversal, processedInQueue, result) ==
    IF queue = <<>> THEN [ranges |-> result, err |-> FALSE]
    ELSE LET v == Head(queue)
             rest == Tail(queue)
             visit(f) ==
                 IF ~f.found THEN [ranges |-> <<>>, err |-> TRUE]
                 ELSE LET entry == cg.Entries[f.idx]
                          next(q) ==
                              diffWalk(cg, to, q.queue,
                                       visitedForTraversal
                                           \cup (entry.Version..(entry.VEnd - 1)),
                                       q.processedInQueue,
                                       diffEntryRuns(to, entry, entry.Version, -1, result))
                      IN IF diffEntireEntryCovered(to, entry)
                         THEN next([queue |-> rest,
                                    processedInQueue |-> processedInQueue])
                         ELSE next(diffParents(cg, to, entry.Parents, 1, rest,
                                               processedInQueue))
         IN IF v \in visitedForTraversal
            THEN diffWalk(cg, to, rest, visitedForTraversal, processedInQueue, result)
            ELSE visit(findEntryContaining(cg, v))

\* sort.Slice by Start; an entry is scanned once, so no two ranges start at
\* one LV.
diffSortByStart(result) ==
    LET starts == SortSet({result[i].Start : i \in 1..Len(result)})
    IN [k \in 1..Len(starts) |-> CHOOSE r \in Range(result) : r.Start = starts[k]]

\* The merge of the sorted ranges: adjacent and overlapping ranges combine.
RECURSIVE diffMerge(_, _, _)
diffMerge(sorted, i, merged) ==
    IF i > Len(sorted) THEN merged
    ELSE LET last == merged[Len(merged)]
             current == sorted[i]
         IN IF current.Start = last.End
            THEN diffMerge(sorted, i + 1,
                           [merged EXCEPT ![Len(merged)].End = current.End])
            ELSE IF current.Start < last.End
            THEN diffMerge(sorted, i + 1,
                           IF current.End > last.End
                           THEN [merged EXCEPT ![Len(merged)].End = current.End]
                           ELSE merged)
            ELSE diffMerge(sorted, i + 1, Append(merged, current))

\* [ranges, err]
Diff(cg, from, to) ==
    LET finish(w) ==
            IF w.err \/ Len(w.ranges) = 0 THEN w
            ELSE LET merge(sorted) == diffMerge(sorted, 2, <<sorted[1]>>)
                 IN [ranges |-> merge(diffSortByStart(w.ranges)), err |-> FALSE]
    IN finish(diffWalk(cg, to, sortLVsAndDedup(from), {}, {}, <<>>))

\* The ancestor set FindDominators collects for one version.
RECURSIVE fdAncestors(_, _, _)
fdAncestors(cg, q, visitedInSet) ==
    IF q = <<>> THEN visitedInSet
    ELSE LET curr == Head(q)
         IN IF curr \in visitedInSet THEN fdAncestors(cg, Tail(q), visitedInSet)
            ELSE LET seen == visitedInSet \cup {curr}
                 IN fdAncestors(cg,
                        Tail(q) \o SelectSeq(ParentsOfLV(cg, curr).parents,
                                             LAMBDA p : p \notin seen /\ p >= 0),
                        seen)

\* The union of the ancestor sets, in place of their intersection.
fdCommonUnion(ancestorSets) == UNION Range(ancestorSets)

\* The versions common to all the ancestor sets.
fdCommon(ancestorSets) ==
    {lv \in ancestorSets[1] :
        \A i \in 2..Len(ancestorSets) : lv \in ancestorSets[i]}

\* The common ancestors, none filtered out.
fdHeadsUnfiltered(cg, common) == common

\* The "heads" of the common ancestors: those that are not an ancestor of
\* another one.
fdHeads(cg, common) ==
    {ca \in common :
        ~\E otherCa \in common :
            /\ otherCa # ca
            /\ VersionContainsLV(cg, <<otherCa>>, ca).val}

\* [lvs, err]
FindDominators(cg, versions) ==
    IF Len(versions) = 0 THEN [lvs |-> <<>>, err |-> FALSE]
    ELSE
    LET uniqueVersions == sortLVsAndDedup(versions)
    IN IF \E i \in 1..Len(uniqueVersions) : ~InBounds(cg, uniqueVersions[i])
       THEN [lvs |-> <<>>, err |-> TRUE]
       ELSE IF Len(uniqueVersions) = 1 THEN [lvs |-> uniqueVersions, err |-> FALSE]
       ELSE
       LET ancestorSets == [i \in 1..Len(uniqueVersions) |->
                               fdAncestors(cg, <<uniqueVersions[i]>>, {})]
           dominators == fdHeads(cg, fdCommon(ancestorSets))
       IN [lvs |-> SortSet(dominators), err |-> FALSE]

RelationOf(cg, a, b) ==
    IF a = b THEN "eq"
    ELSE LET second(isDesc) ==
                 IF isDesc.err THEN "error"
                 ELSE IF isDesc.val THEN "descendant"
                 ELSE "concurrent"
             first(isAnc) ==
                 IF isAnc.err THEN "error"
                 ELSE IF isAnc.val THEN "ancestor"
                 ELSE second(VersionContainsLV(cg, <<a>>, b))
         IN first(VersionContainsLV(cg, <<b>>, a))

CompareVersions(cg, a, b) == RelationOf(cg, a, b)

isMergeFlag(entry, offset) == IF offset = 0 THEN Len(entry.Parents) > 1 ELSE FALSE

\* The stack walk of iterVersionsBetweenBP with a callback that never stops:
\* [visits, err], visits being the calls of fn in order.
RECURSIVE ivbWalk(_, _, _, _)
ivbWalk(cg, stack, visited, visits) ==
    IF stack = <<>> THEN [visits |-> visits, err |-> FALSE]
    ELSE LET item == stack[Len(stack)]
             rest == SubSeq(stack, 1, Len(stack) - 1)
             v == item.v
         IN IF v \in visited THEN ivbWalk(cg, rest, visited, visits)
            ELSE LET visit(f) ==
                     IF ~f.found THEN [visits |-> visits, err |-> TRUE]
                     ELSE
                     LET entry == cg.Entries[f.idx]
                         seen == visited \cup {v}
                         parentsToVisit == IF f.offset = 0 THEN entry.Parents
                                           ELSE <<v - 1>>
                         n == Len(parentsToVisit)
                         \* pushed for i = n-1 down to 0 (0-based), skipping visited
                         pushes == SelectSeq(
                             [k \in 1..n |->
                                 [v |-> parentsToVisit[n + 1 - k],
                                  isParentOfPrev |-> (n + 1 - k) = 1]],
                             LAMBDA e : e.v \notin seen /\ e.v >= 0)
                     IN ivbWalk(cg, rest \o pushes, seen,
                                Append(visits,
                                       [v |-> v, isParentOfPrev |-> item.isParentOfPrev,
                                        isMerge |-> isMergeFlag(entry, f.offset)]))
                 IN visit(findEntryContaining(cg, v))

iterVersionsBetweenBP(cg, from, to) ==
    IF to \in Range(from) THEN [visits |-> <<>>, err |-> FALSE]
    ELSE ivbWalk(cg, <<[v |-> to, isParentOfPrev |-> FALSE]>>, Range(from), <<>>)

IterOutOfBounds(cg, v) ==
    v < 0 \/ (cg.NextLV > 0 /\ v >= cg.NextLV) \/ (cg.NextLV = 0 /\ v # 0)

\* The loop over `from` at the head of IterVersionsBetween: "err", "empty"
\* (return nil without a visit) or "go" (hand over to iterVersionsBetweenBP).
RECURSIVE ivbFromScan(_, _, _, _)
ivbFromScan(cg, from, i, to) ==
    IF i > Len(from) THEN "go"
    ELSE IF IterOutOfBounds(cg, from[i]) THEN "err"
    ELSE IF from[i] = to THEN "empty"
    ELSE LET result(c) ==
                 IF c.err THEN "err"
                 ELSE IF c.val THEN "empty"
                 ELSE ivbFromScan(cg, from, i + 1, to)
         IN result(VersionContainsLV(cg, <<from[i]>>, to))

\* [visits, err] for a callback that never stops.
IterVersionsBetween(cg, from, to) ==
    IF IterOutOfBounds(cg, to) THEN [visits |-> <<>>, err |-> TRUE]
    ELSE LET result(scan) ==
                 IF scan = "err" THEN [visits |-> <<>>, err |-> TRUE]
                 ELSE IF scan = "empty" THEN [visits |-> <<>>, err |-> FALSE]
                 ELSE iterVersionsBetweenBP(cg, from, to)
         IN result(ivbFromScan(cg, from, 1, to))

\* A summary whose ranges include their end.
iwsCoveredInclusive(summary, agent, seq) ==
    /\ agent \in DOMAIN summary
    /\ \E i \in 1..Len(summary[agent]) :
          seq >= summary[agent][i][1] /\ seq <= summary[agent][i][2]

\* isCovered of IntersectWithSummaryFull: seq is within a range [r[0], r[1])
\* of the agent.
iwsCovered(summary, agent, seq) ==
    /\ agent \in DOMAIN summary
    /\ \E i \in 1..Len(summary[agent]) :
          seq >= summary[agent][i][1] /\ seq < summary[agent][i][2]

\* The slice [lvIter + 1, currentRunStartLV + 1) of the entry, appended when
\* the loop meets a covered LV below a run of uncovered ones.
iwsSlice(entry, lvIter, st) ==
    [Agent |-> entry.Agent,
     Seq |-> entry.Seq + ((lvIter + 1) - entry.Version),
     Version |-> lvIter + 1,
     VEnd |-> st.currentRunStartLV + 1,
     Parents |-> st.currentRunParents]

\* The loop of IntersectWithSummaryFull over the LVs of one entry, from
\* VEnd - 1 down to Version. st holds result, visitedLVs, currentRunStartLV
\* and currentRunParents.
RECURSIVE iwsEntryLoop(_, _, _, _)
iwsEntryLoop(entry, summary, lvIter, st) ==
    IF lvIter < entry.Version THEN st
    ELSE
    LET closed ==
            IF st.currentRunStartLV # -1
            THEN [st EXCEPT !.result = Append(@, iwsSlice(entry, lvIter, st)),
                            !.currentRunStartLV = -1]
            ELSE st
        seqIter == entry.Seq + (lvIter - entry.Version)
    IN IF lvIter \in st.visitedLVs
       THEN iwsEntryLoop(entry, summary, lvIter - 1, closed)
       ELSE IF ~iwsCovered(summary, entry.Agent, seqIter)
       THEN iwsEntryLoop(entry, summary, lvIter - 1,
                [st EXCEPT !.currentRunStartLV = IF @ = -1 THEN lvIter ELSE @,
                           !.currentRunParents =
                               IF lvIter = entry.Version THEN entry.Parents
                               ELSE <<lvIter - 1>>])
       ELSE iwsEntryLoop(entry, summary, lvIter - 1,
                [closed EXCEPT !.visitedLVs = @ \cup {lvIter}])

\* One entry of the walk: the loop and the slice that reaches down to the
\* entry's first LV.
iwsEntry(entry, summary, result, visitedLVs) ==
    LET finish(st) ==
            IF st.currentRunStartLV # -1
            THEN [st EXCEPT !.result =
                     Append(@, [Agent |-> entry.Agent, Seq |-> entry.Seq,
                                Version |-> entry.Version,
                                VEnd |-> st.currentRunStartLV + 1,
                                Parents |-> entry.Parents])]
            ELSE st
    IN finish(iwsEntryLoop(entry, summary, entry.VEnd - 1,
                  [result |-> result, visitedLVs |-> visitedLVs,
                   currentRunStartLV |-> -1, currentRunParents |-> <<>>]))

\* The walk of IntersectWithSummaryFull from the heads, the last of the
\* queue first: [entries, err].
RECURSIVE iwsWalk(_, _, _, _, _, _)
iwsWalk(cg, summary, queue, visitedLVs, processedEntries, result) ==
    IF queue = <<>> THEN [entries |-> result, err |-> FALSE]
    ELSE
    LET v == queue[Len(queue)]
        rest == SubSeq(queue, 1, Len(queue) - 1)
        skip == iwsWalk(cg, summary, rest, visitedLVs, processedEntries, result)
        visit(f) ==
            IF ~f.found THEN [entries |-> <<>>, err |-> TRUE]
            ELSE LET entry == cg.Entries[f.idx]
                     next(st) ==
                         iwsWalk(cg, summary,
                                 rest \o SelectSeq(entry.Parents,
                                            LAMBDA q : q >= 0 /\ q \notin st.visitedLVs),
                                 st.visitedLVs,
                                 processedEntries \cup {entry.Version},
                                 st.result)
                 IN IF entry.Version \in processedEntries THEN skip
                    ELSE next(iwsEntry(entry, summary, result, visitedLVs))
    IN IF v < 0 \/ v \in visitedLVs THEN skip
       ELSE visit(findEntryContaining(cg, v))

\* sort.Slice of the result by Version; no two slices start at one version.
iwsSortByVersion(result) ==
    LET versions == SortSet({result[i].Version : i \in 1..Len(result)})
    IN [k \in 1..Len(versions) |->
           result[CHOOSE i \in 1..Len(result) : result[i].Version = versions[k]]]

\* [entries, err]
IntersectWithSummaryFull(cg, summary) ==
    LET sorted(w) ==
            IF w.err THEN w
            ELSE [entries |-> iwsSortByVersion(w.entries), err |-> FALSE]
    IN sorted(iwsWalk(cg, summary, sortLVsAndDedup(cg.Heads), {}, {}, <<>>))

\* The LVs of the slices one after another.
RECURSIVE iwsFlatten(_, _)
iwsFlatten(entries, i) ==
    IF i > Len(entries) THEN <<>>
    ELSE [k \in 1..(entries[i].VEnd - entries[i].Version) |->
             entries[i].Version + (k - 1)]
         \o iwsFlatten(entries, i + 1)

\* [lvs, err]
IntersectWithSummary(cg, summary) ==
    LET flat(full) ==
            IF full.err THEN [lvs |-> <<>>, err |-> TRUE]
            ELSE [lvs |-> sortLVsAndDedup(iwsFlatten(full.entries, 1)), err |-> FALSE]
    IN flat(IntersectWithSummaryFull(cg, summary))

----------------------------------------------------------------------------
(* package egwalker: types                                                 *)

ListOpTypeInsert == "ins"
ListOpTypeDelete == "del"

NotYetInserted == -1
Inserted == 0
Deleted == 1

MapPut(m, k, val) == [x \in (DOMAIN m) \cup {k} |-> IF x = k THEN val ELSE m[x]]

MapDelete(m, k) == [x \in (DOMAIN m) \ {k} |-> m[x]]

\* The zero value of Item: what freshly allocated array slots hold.
ZeroItem == [OpID |-> 0, CurState |-> 0, EndState |-> 0, OriginLeft |-> 0,
             RightParent |-> 0]

\* Capacity of the array append allocates when `needed` elements do not fit
\* into a slice of capacity oldCap (Go's runtime, below 256 elements; the
\* size classes of the allocator leave 1, 2, 4, 8 Items unchanged).
GrowCap(oldCap, needed) == IF needed > 2 * oldCap THEN needed ELSE 2 * oldCap

newEditCtx == [Arrays |-> <<>>, ItemsLen |-> 0, ItemsByLV |-> EmptyMap,
               DelTargets |-> EmptyMap, CurVersion |-> <<>>]

NewWalker == [Log |-> [Ops |-> <<>>, CG |-> CreateCG], Ctx |-> newEditCtx]

\* Ctx.Items: the slice.
Items(ctx) == IF ctx.Arrays = <<>> THEN <<>>
              ELSE SubSeq(ctx.Arrays[Len(ctx.Arrays)], 1, ctx.ItemsLen)

ItemsCap(ctx) == IF ctx.Arrays = <<>> THEN 0 ELSE Len(ctx.Arrays[Len(ctx.Arrays)])

\* *ptr for a pointer held in ItemsByLV.
Deref(ctx, ptr) == ctx.Arrays[ptr.arr][ptr.idx + 1]

\* ptr.CurState = st
StoreState(arrays, ptr, st) ==
    [arrays EXCEPT ![ptr.arr][ptr.idx + 1].CurState = st]

\* 1-based index of the first item of the slice with the OpID, 0 for none.
IndexOfOpID(items, lv) ==
    LET hits == {i \in 1..Len(items) : items[i].OpID = lv}
    IN IF hits = {} THEN 0 ELSE Min(hits)

\* 1-based index of the item at visible index pos, 0 for none.
VisibleIndex(items, pos) ==
    LET hits == {i \in 1..Len(items) :
                    /\ items[i].CurState = Inserted
                    /\ Cardinality({j \in 1..(i - 1) : items[j].CurState = Inserted}) = pos}
    IN IF hits = {} THEN 0 ELSE Min(hits)

----------------------------------------------------------------------------
(* package egwalker: the walker. Every operation is a function of the log  *)
(* and the edit context it works on and returns the new values.            *)

\* [ctx, err]
applyOp(log, ctx, lv) ==
    IF lv < 0 \/ lv >= Len(log.Ops) THEN [ctx |-> ctx, err |-> TRUE]
    ELSE
    LET op == log.Ops[lv + 1]
        items == Items(ctx)
        last == Len(ctx.Arrays)
    IN
    IF op.Type = ListOpTypeInsert
    THEN LET newItem == [OpID |-> lv, CurState |-> Inserted,
                         EndState |-> NotYetInserted, OriginLeft |-> -1,
                         RightParent |-> -1]
             insertAtIndex == IF op.Pos > Len(items) THEN Len(items) ELSE op.Pos
             spliced == SubSeq(items, 1, insertAtIndex) \o <<newItem>>
                        \o SubSeq(items, insertAtIndex + 1, Len(items))
             cap == ItemsCap(ctx)
             newArrays ==
                 IF Len(spliced) <= cap
                 THEN [ctx.Arrays EXCEPT
                          ![last] = spliced \o SubSeq(@, Len(spliced) + 1, cap)]
                 ELSE Append(ctx.Arrays,
                             spliced \o [i \in 1..(GrowCap(cap, Len(spliced))
                                                   - Len(spliced)) |-> ZeroItem])
         IN [ctx |-> [ctx EXCEPT
                        !.Arrays = newArrays,
                        !.ItemsLen = Len(spliced),
                        !.ItemsByLV = MapPut(@, lv, [arr |-> Len(newArrays),
                                                     idx |-> insertAtIndex])],
             err |-> FALSE]
    ELSE IF op.Type = ListOpTypeDelete
    THEN LET i == VisibleIndex(items, op.Pos)
         IN IF i = 0
            THEN [ctx |-> [ctx EXCEPT !.DelTargets = MapPut(@, lv, -1)],
                  err |-> FALSE]
            ELSE LET targetLV == items[i].OpID
                     inSlice == StoreState(ctx.Arrays, [arr |-> last, idx |-> i - 1],
                                           Deleted)
                     inMap == IF targetLV \in DOMAIN ctx.ItemsByLV
                              THEN StoreState(inSlice, ctx.ItemsByLV[targetLV], Deleted)
                              ELSE inSlice
                 IN [ctx |-> [ctx EXCEPT !.Arrays = inMap,
                                         !.DelTargets = MapPut(@, lv, targetLV)],
                     err |-> FALSE]
    ELSE [ctx |-> ctx, err |-> FALSE]

\* [ctx, err]
retreatOp(log, ctx, lv) ==
    IF lv < 0 \/ lv >= Len(log.Ops) THEN [ctx |-> ctx, err |-> TRUE]
    ELSE
    LET op == log.Ops[lv + 1]
        last == Len(ctx.Arrays)
    IN
    IF op.Type = ListOpTypeInsert
    THEN IF lv \notin DOMAIN ctx.ItemsByLV THEN [ctx |-> ctx, err |-> TRUE]
         ELSE LET inMap == StoreState(ctx.Arrays, ctx.ItemsByLV[lv], NotYetInserted)
                  i == IndexOfOpID(SubSeq(inMap[last], 1, ctx.ItemsLen), lv)
              IN IF i = 0
                 THEN [ctx |-> [ctx EXCEPT !.Arrays = inMap], err |-> TRUE]
                 ELSE [ctx |-> [ctx EXCEPT !.Arrays =
                                   StoreState(inMap, [arr |-> last, idx |-> i - 1],
                                              NotYetInserted)],
                       err |-> FALSE]
    ELSE IF op.Type = ListOpTypeDelete
    THEN IF lv \notin DOMAIN ctx.DelTargets \/ ctx.DelTargets[lv] = -1
         THEN [ctx |-> ctx, err |-> FALSE]
         ELSE LET targetLV == ctx.DelTargets[lv]
              IN IF targetLV \notin DOMAIN ctx.ItemsByLV
                 THEN [ctx |-> ctx, err |-> TRUE]
                 ELSE LET inMap == StoreState(ctx.Arrays, ctx.ItemsByLV[targetLV],
                                              Inserted)
                          i == IndexOfOpID(SubSeq(inMap[last], 1, ctx.ItemsLen),
                                           targetLV)
                      IN IF i = 0
                         THEN [ctx |-> [ctx EXCEPT !.Arrays = inMap], err |-> TRUE]
                         ELSE [ctx |-> [ctx EXCEPT
                                          !.Arrays = StoreState(inMap,
                                                        [arr |-> last, idx |-> i - 1],
                                                        Inserted),
                                          !.DelTargets = MapDelete(@, lv)],
                               err |-> FALSE]
    ELSE [ctx |-> ctx, err |-> FALSE]

\* applyOp for opsToApply[i], i = len-1 down to 0: visits holds the LVs in
\* the order IterVersionsBetween reported them. [ctx, err]
RECURSIVE applyReversed(_, _, _, _)
applyReversed(log, ctx, visits, i) ==
    IF i < 1 THEN [ctx |-> ctx, err |-> FALSE]
    ELSE LET next(r) == IF r.err THEN r ELSE applyReversed(log, r.ctx, visits, i - 1)
         IN next(applyOp(log, ctx, visits[i].v))

\* retreatOp as the callback of IterVersionsBetween: the first error stops
\* the iteration. [ctx, err]
RECURSIVE retreatVisited(_, _, _, _)
retreatVisited(log, ctx, visits, i) ==
    IF i > Len(visits) THEN [ctx |-> ctx, err |-> FALSE]
    ELSE LET next(r) == IF r.err THEN r ELSE retreatVisited(log, r.ctx, visits, i + 1)
         IN next(retreatOp(log, ctx, visits[i].v))

\* [ctx, err]
advance(log, ctx, targetLV) ==
    LET applied(r) ==
            IF r.err THEN r
            ELSE [ctx |-> [r.ctx EXCEPT !.CurVersion = <<targetLV>>], err |-> FALSE]
        collected(it) ==
            IF it.err THEN [ctx |-> ctx, err |-> TRUE]
            ELSE applied(applyReversed(log, ctx, it.visits, Len(it.visits)))
    IN collected(IterVersionsBetween(log.CG, ctx.CurVersion, targetLV))

\* A retreat that rejects no target.
isInvalidRetreatNever(ctx, isAncestor, targetLV) == FALSE

\* The test of retreat on a non-empty CurVersion: targetLV is neither an
\* ancestor of the current version nor its only member.
isInvalidRetreat(ctx, isAncestor, targetLV) ==
    /\ ~isAncestor.val
    /\ (Len(ctx.CurVersion) > 1 \/ ctx.CurVersion[1] # targetLV)

\* [ctx, err]
retreat(log, ctx, targetLV) ==
    LET fail == [ctx |-> ctx, err |-> TRUE]
        retreated(r) ==
            IF r.err THEN r
            ELSE [ctx |-> [r.ctx EXCEPT !.CurVersion = <<targetLV>>], err |-> FALSE]
        collected(it) ==
            IF it.err THEN fail ELSE retreated(retreatVisited(log, ctx, it.visits, 1))
        checked(isAncestor) ==
            IF isAncestor.err THEN fail
            ELSE IF Len(ctx.CurVersion) = 0
            THEN IF targetLV = -1 \/ (targetLV = 0 /\ NextLV(log.CG) > 0)
                 THEN [ctx |-> [ctx EXCEPT !.CurVersion = <<targetLV>>], err |-> FALSE]
                 ELSE IF targetLV = 0 /\ NextLV(log.CG) = 0
                 THEN [ctx |-> [ctx EXCEPT !.CurVersion = <<>>], err |-> FALSE]
                 ELSE fail
            ELSE IF isInvalidRetreat(ctx, isAncestor, targetLV)
            THEN fail
            ELSE IF Len(ctx.CurVersion) # 1 /\ targetLV = -1 /\ Len(ctx.CurVersion) > 1
            THEN [ctx |-> [newEditCtx EXCEPT !.CurVersion = <<targetLV>>], err |-> FALSE]
            ELSE
            LET currentTip == ctx.CurVersion[1]
            IN IF currentTip = targetLV
               THEN [ctx |-> [ctx EXCEPT !.CurVersion = <<targetLV>>], err |-> FALSE]
               ELSE collected(IterVersionsBetween(log.CG, <<targetLV>>, currentTip))
    IN checked(VersionContainsLV(log.CG, ctx.CurVersion, targetLV))

\* The fallback of merge after a failed retreat: advance to each common
\* ancestor in turn. [ctx, err]
RECURSIVE mergeFallbackAdvance(_, _, _, _)
mergeFallbackAdvance(log, ctx, commonAncestors, i) ==
    IF i > Len(commonAncestors) THEN [ctx |-> ctx, err |-> FALSE]
    ELSE LET next(r) ==
                 IF r.err THEN r
                 ELSE mergeFallbackAdvance(log, r.ctx, commonAncestors, i + 1)
         IN next(advance(log, ctx, commonAncestors[i]))

\* The loop of merge over the heads of targetVersion. [ctx, err]
RECURSIVE mergeApplyHeads(_, _, _, _)
mergeApplyHeads(log, ctx, targetVersion, i) ==
    IF i > Len(targetVersion) THEN [ctx |-> ctx, err |-> FALSE]
    ELSE LET tv == targetVersion[i]
             applied(r) ==
                 IF r.err THEN r ELSE mergeApplyHeads(log, r.ctx, targetVersion, i + 1)
             collected(it) ==
                 IF it.err THEN [ctx |-> ctx, err |-> TRUE]
                 ELSE applied(applyReversed(log, ctx, it.visits, Len(it.visits)))
             checked(isCovered) ==
                 IF isCovered.err THEN [ctx |-> ctx, err |-> TRUE]
                 ELSE IF isCovered.val
                 THEN mergeApplyHeads(log, ctx, targetVersion, i + 1)
                 ELSE collected(IterVersionsBetween(log.CG, ctx.CurVersion, tv))
         IN checked(VersionContainsLV(log.CG, ctx.CurVersion, tv))

\* [ctx, err]
merge(log, ctx, targetVersion) ==
    IF Len(targetVersion) = 0
    THEN [ctx |-> IF Len(ctx.CurVersion) > 0 THEN newEditCtx ELSE ctx, err |-> FALSE]
    ELSE
    LET allVersions == ctx.CurVersion \o targetVersion
        merged(r) ==
            IF r.err THEN r
            ELSE [ctx |-> [r.ctx EXCEPT !.CurVersion = targetVersion], err |-> FALSE]
        \* from the context moved to the common ancestors on
        based(b) ==
            IF b.err THEN b ELSE merged(mergeApplyHeads(log, b.ctx, targetVersion, 1))
        at(c, lvs) == [ctx |-> [c EXCEPT !.CurVersion = lvs], err |-> FALSE]
        fellBack(fb, lvs) == IF fb.err THEN fb ELSE at(fb.ctx, lvs)
        retreated(rt, lvs) ==
            IF rt.err
            THEN fellBack(mergeFallbackAdvance(log, newEditCtx, lvs, 1), lvs)
            ELSE at(rt.ctx, lvs)
        found(commonAncestors) ==
            IF commonAncestors.err THEN [ctx |-> ctx, err |-> TRUE]
            ELSE based(IF Len(ctx.CurVersion) > 0
                       THEN IF Len(commonAncestors.lvs) = 0
                            THEN [ctx |-> newEditCtx, err |-> FALSE]
                            ELSE retreated(retreat(log, ctx, commonAncestors.lvs[1]),
                                           commonAncestors.lvs)
                       ELSE at(ctx, commonAncestors.lvs))
    IN found(FindDominators(log.CG, allVersions))

\* The contents of the items with CurState = Inserted, in document order:
\* [snapshot, bad], bad when such an item's op is missing or no insert.
ActiveContents(log, ctx) ==
    LET vis == SelectSeq(Items(ctx), LAMBDA it : it.CurState = Inserted)
        good(it) == it.OpID < Len(log.Ops)
                    /\ log.Ops[it.OpID + 1].Type = ListOpTypeInsert
        kept == SelectSeq(vis, good)
    IN [snapshot |-> [i \in 1..Len(kept) |-> log.Ops[kept[i].OpID + 1].Content],
        bad |-> Len(kept) # Len(vis)]

\* [Snapshot, Version, err]
Checkout(log, targetVersion) ==
    LET fail == [Snapshot |-> <<>>, Version |-> <<>>, err |-> TRUE]
        collected(a) ==
            IF a.bad THEN fail
            ELSE [Snapshot |-> a.snapshot, Version |-> targetVersion, err |-> FALSE]
        merged(m) == IF m.err THEN fail ELSE collected(ActiveContents(log, m.ctx))
    IN merged(merge(log, newEditCtx, targetVersion))

\* A temporary walker that borrows the context of the walker.
tempWalkerBorrowed(log, ctx) == [Log |-> log, Ctx |-> ctx, ownCtx |-> FALSE]

\* tempWalker := &Walker[T]{Log: w.Log, Ctx: newEditCtx()}: the log is the
\* one of the walker, the context is one of its own.
tempWalker(log, ctx) == [Log |-> log, Ctx |-> newEditCtx, ownCtx |-> TRUE]

\* [log, ctx]: the walker (log, ctx) after Checkout(targetVersion). What the
\* merge of the temporary walker does to a structure it has from the walker,
\* it does to the walker; merge writes the context only.
CheckoutLeaves(log, ctx, targetVersion) ==
    LET after(t, m) == [log |-> t.Log, ctx |-> IF t.ownCtx THEN ctx ELSE m.ctx]
        with(t) == after(t, merge(t.Log, t.Ctx, targetVersion))
    IN with(tempWalker(log, ctx))

GetActiveItems(log, ctx) == ActiveContents(log, ctx).snapshot

GetVersion(ctx) == ctx.CurVersion

\* A walker that forgets the rollback: the failed call leaves its op in the
\* log.
RollbackAppendSkipped(log) == log

\* w.Log.Ops = w.Log.Ops[:len(w.Log.Ops)-1]
RollbackAppend(log) == [log EXCEPT !.Ops = SubSeq(@, 1, Len(@) - 1)]

\* A walker that takes every operation for a local one.
IsLocalOpAlways(rawParents) == TRUE

\* if rawParents == nil: the operation is a local one
IsLocalOp(rawParents) == rawParents.isNil

\* A walker that leaves its frontier where it was.
SetCurVersionSkipped(ctx, actualLV) == ctx

\* w.Ctx.CurVersion = []causalgraph.LV{actualLV}
SetCurVersion(ctx, actualLV) == [ctx EXCEPT !.CurVersion = <<actualLV>>]

\* [log, ctx, lv, err]
Integrate(log, ctx, op, agent, rawParents) ==
    LET seq == NextSeqForAgent(log.CG, agent)
        appended == [log EXCEPT !.Ops = Append(@, op)]
        rolledBack == [log |-> RollbackAppend(appended), ctx |-> ctx, lv |-> -1,
                       err |-> TRUE]
        applied(ap, newLog, actualLV) ==
            [log |-> newLog, ctx |-> ap.ctx, lv |-> actualLV, err |-> ap.err]
        logged(newLog, actualLV) ==
            IF IsLocalOp(rawParents)
            THEN applied(applyOp(newLog, SetCurVersion(ctx, actualLV), actualLV),
                         newLog, actualLV)
            ELSE [log |-> newLog, ctx |-> ctx, lv |-> actualLV, err |-> FALSE]
        added(a) ==
            IF a.err THEN rolledBack
            ELSE IF a.entryNil THEN rolledBack
            ELSE logged([appended EXCEPT !.CG = a.cg], a.entry.Version)
        converted(ownParents) ==
            IF rawParents.isNil /\ ownParents.err THEN rolledBack
            ELSE added(AddRaw(log.CG, [Agent |-> agent, Seq |-> seq], 1,
                              IF ~rawParents.isNil THEN rawParents
                              ELSE ownParents.raws))
    IN converted(LVToRawList(log.CG, ctx.CurVersion))

\* [log, ctx, lv, err]
LocalInsert(log, ctx, agent, pos, content) ==
    LET result(r) == IF r.err THEN [r EXCEPT !.lv = -1] ELSE r
    IN result(Integrate(log, ctx,
                        [Type |-> ListOpTypeInsert, Pos |-> pos, Content |-> content],
                        agent, NilSlice))

\* [log, ctx, lv, err]; a delete op carries the zero value of the content.
LocalDelete(log, ctx, agent, pos) ==
    LET result(r) == IF r.err THEN [r EXCEPT !.lv = -1] ELSE r
    IN result(Integrate(log, ctx,
                        [Type |-> ListOpTypeDelete, Pos |-> pos, Content |-> ""],
                        agent, NilSlice))

----------------------------------------------------------------------------
(* The state: a walker (Log, Ctx); a second walker or context (Log2, Ctx2) *)
(* for the properties that compare two replays; and what the model keeps   *)
(* about the calls made: the last call with its results (ret), the list    *)
(* GetActiveItems returned after each local edit (shown), and the LVs of   *)
(* the first walker in the order the second walker integrated them         *)
(* (replayed).                                                             *)

VARIABLES Log, Ctx, Log2, Ctx2, ret, shown, replayed

vars == <<Log, Ctx, Log2, Ctx2, ret, shown, replayed>>

NoOp == [Type |-> "", Pos |-> 0, Content |-> ""]

\* call: the operation called last; op: the operation it integrated; target:
\* the version(s) it was given; lv, err, snapshot: what it returned; clean:
\* no call so far has failed and left the log or the context changed.
NoRet == [call |-> "init", op |-> NoOp, target |-> <<>>, target2 |-> <<>>,
          lv |-> -1, err |-> FALSE, snapshot |-> <<>>, clean |-> TRUE]

InsertOps == {[Type |-> ListOpTypeInsert, Pos |-> p, Content |-> c] :
                 p \in 0..MaxPos, c \in Contents}

DeleteOps == {[Type |-> ListOpTypeDelete, Pos |-> p, Content |-> ""] : p \in 0..MaxPos}

ListOps == InsertOps \cup DeleteOps

\* The raw versions of a set of LVs of the graph, in ascending LV order.
RawsOf(cg, S) == LET lvs == SortSet(S)
                 IN [i \in 1..Len(lvs) |-> LVToRaw(cg, lvs[i]).raw]

\* Caller-supplied parents: any set of known versions, or an unknown one.
RawParentChoices(cg) ==
    {Slice(RawsOf(cg, S)) : S \in SUBSET (0..(cg.NextLV - 1))}
        \cup {Slice(<<[Agent |-> UnknownAgent, Seq |-> 0]>>)}

\* Target versions handed to advance and retreat: every LV of the graph, the
\* root -1 and the first LV beyond the graph.
TargetLVs(cg) == (-1)..cg.NextLV

\* The frontiers within the graph: every set of its LVs in ascending order.
GraphFrontiers(cg) == {SortSet(S) : S \in SUBSET (0..(cg.NextLV - 1))}

\* Frontiers handed to merge and Checkout: those, and two that name a
\* version outside the graph.
TargetFrontiers(cg) == GraphFrontiers(cg) \cup {<<-1>>, <<cg.NextLV>>}

Init ==
    /\ Log = NewWalker.Log
    /\ Ctx = NewWalker.Ctx
    /\ Log2 = NewWalker.Log
    /\ Ctx2 = NewWalker.Ctx
    /\ ret = NoRet
    /\ shown = <<>>
    /\ replayed = <<>>

\* ret after a call of Integrate, LocalInsert or LocalDelete that returned r.
IntegrateRet(call, op, r) ==
    [NoRet EXCEPT !.call = call,
                  !.op = IF r.err THEN NoOp ELSE op,
                  !.lv = r.lv,
                  !.err = r.err,
                  !.clean = ret.clean /\ (r.err => (r.log = Log /\ r.ctx = Ctx))]

\* ret after a call of advance, retreat or merge that returned r.
ContextRet(call, target, r) ==
    [NoRet EXCEPT !.call = call, !.target = target, !.err = r.err,
                  !.clean = ret.clean /\ (r.err => r.ctx = Ctx)]

\* walker.LocalInsert(agent, pos, content)
DoLocalInsert(agent, pos, content) ==
    LET r == LocalInsert(Log, Ctx, agent, pos, content)
    IN /\ Ctx.ItemsLen < MaxItems
       /\ Log' = r.log
       /\ Ctx' = r.ctx
       /\ ret' = IntegrateRet("LocalInsert",
                              [Type |-> ListOpTypeInsert, Pos |-> pos,
                               Content |-> content], r)
       /\ UNCHANGED <<Log2, Ctx2, replayed>>

\* walker.LocalDelete(agent, pos)
DoLocalDelete(agent, pos) ==
    LET r == LocalDelete(Log, Ctx, agent, pos)
    IN /\ Log' = r.log
       /\ Ctx' = r.ctx
       /\ ret' = IntegrateRet("LocalDelete",
                              [Type |-> ListOpTypeDelete, Pos |-> pos,
                               Content |-> ""], r)
       /\ UNCHANGED <<Log2, Ctx2, replayed>>

\* walker.Integrate(op, agent, rawParents) with caller-supplied parents
DoIntegrate(op, agent, rawParents) ==
    LET r == Integrate(Log, Ctx, op, agent, rawParents)
    IN /\ Log' = r.log
       /\ Ctx' = r.ctx
       /\ ret' = IntegrateRet("Integrate", op, r)
       /\ UNCHANGED <<Log2, Ctx2, shown, replayed>>

\* walker.advance(targetLV)
DoAdvance(targetLV) ==
    LET r == advance(Log, Ctx, targetLV)
    IN /\ r.ctx.ItemsLen <= MaxItems
       /\ Ctx' = r.ctx
       /\ ret' = ContextRet("advance", <<targetLV>>, r)
       /\ UNCHANGED <<Log, Log2, Ctx2, shown, replayed>>

\* walker.retreat(targetLV)
DoRetreat(targetLV) ==
    LET r == retreat(Log, Ctx, targetLV)
    IN /\ Ctx' = r.ctx
       /\ ret' = ContextRet("retreat", <<targetLV>>, r)
       /\ UNCHANGED <<Log, Log2, Ctx2, shown, replayed>>

\* walker.merge(targetVersion)
DoMerge(targetVersion) ==
    LET r == merge(Log, Ctx, targetVersion)
    IN /\ r.ctx.ItemsLen <= MaxItems
       /\ Ctx' = r.ctx
       /\ ret' = ContextRet("merge", targetVersion, r)
       /\ UNCHANGED <<Log, Log2, Ctx2, shown, replayed>>

\* walker.Checkout(targetVersion)
DoCheckout(targetVersion) ==
    LET returns(b) ==
            ret' = [NoRet EXCEPT !.call = "Checkout", !.target = targetVersion,
                                 !.err = b.err, !.snapshot = b.Snapshot,
                                 !.clean = ret.clean]
        leaves(w) == Log' = w.log /\ Ctx' = w.ctx
    IN /\ returns(Checkout(Log, targetVersion))
       /\ leaves(CheckoutLeaves(Log, Ctx, targetVersion))
       /\ UNCHANGED <<Log2, Ctx2, shown, replayed>>

----------------------------------------------------------------------------
(* Spec: the public operations that change a walker, called by any agent   *)
(* with any parents.                                                       *)

LocalInsertStep ==
    /\ Len(Log.Ops) < MaxOps
    /\ \E agent \in Agents, pos \in 0..MaxPos, content \in Contents :
          DoLocalInsert(agent, pos, content)
    /\ UNCHANGED shown

LocalDeleteStep ==
    /\ Len(Log.Ops) < MaxOps
    /\ \E agent \in Agents, pos \in 0..MaxPos : DoLocalDelete(agent, pos)
    /\ UNCHANGED shown

IntegrateStep ==
    /\ Len(Log.Ops) < MaxOps
    /\ \E op \in ListOps, agent \in Agents, rawParents \in RawParentChoices(Log.CG) :
          DoIntegrate(op, agent, rawParents)

Next ==
    \/ LocalInsertStep
    \/ LocalDeleteStep
    \/ IntegrateStep

Spec == Init /\ [][Next]_vars

----------------------------------------------------------------------------
(* SpecLocal: a walker that performs local edits only, and checkouts of    *)
(* the versions of its linear history.                                     *)

EditInsertStep ==
    /\ Len(Log.Ops) < MaxLocalOps
    /\ \E agent \in EditAgents, pos \in 0..MaxPos, content \in Contents :
          DoLocalInsert(agent, pos, content)
    /\ shown' = Append(shown, GetActiveItems(Log', Ctx'))

EditDeleteStep ==
    /\ Len(Log.Ops) < MaxLocalOps
    /\ \E agent \in EditAgents, pos \in 0..MaxPos : DoLocalDelete(agent, pos)
    /\ shown' = Append(shown, GetActiveItems(Log', Ctx'))

EditCheckoutStep ==
    \E v \in 0..(Log.CG.NextLV - 1) : DoCheckout(<<v>>)

NextLocal ==
    \/ EditInsertStep
    \/ EditDeleteStep
    \/ EditCheckoutStep

SpecLocal == Init /\ [][NextLocal]_vars

----------------------------------------------------------------------------
(* SpecNav: a walker whose context is also moved by advance, retreat and   *)
(* merge, over graphs with concurrent operations.                          *)

NavInsertStep ==
    /\ Len(Log.Ops) < MaxNavOps
    /\ \E agent \in EditAgents, pos \in 0..MaxPos, content \in Contents :
          DoLocalInsert(agent, pos, content)
    /\ UNCHANGED shown

NavDeleteStep ==
    /\ Len(Log.Ops) < MaxNavOps
    /\ \E agent \in EditAgents, pos \in 0..MaxPos : DoLocalDelete(agent, pos)
    /\ UNCHANGED shown

NavIntegrateStep ==
    /\ Len(Log.Ops) < MaxNavOps
    /\ \E op \in ListOps, agent \in EditAgents,
          rawParents \in RawParentChoices(Log.CG) :
          DoIntegrate(op, agent, rawParents)

AdvanceStep == \E targetLV \in TargetLVs(Log.CG) : DoAdvance(targetLV)

RetreatStep == \E targetLV \in TargetLVs(Log.CG) : DoRetreat(targetLV)

MergeStep == \E targetVersion \in TargetFrontiers(Log.CG) : DoMerge(targetVersion)

NextNav ==
    \/ NavInsertStep
    \/ NavDeleteStep
    \/ NavIntegrateStep
    \/ AdvanceStep
    \/ RetreatStep
    \/ MergeStep

SpecNav == Init /\ [][NextNav]_vars

----------------------------------------------------------------------------
(* SpecReplay: the operations of the first walker are integrated into a    *)
(* second walker, each with the parents it has in the first, in any order  *)
(* that integrates parents before children and keeps every agent's         *)
(* operations in sequence.                                                 *)

ReplayInsertStep ==
    /\ Len(Log.Ops) < MaxReplayOps
    /\ \E agent \in Agents, pos \in 0..MaxPos, content \in Contents :
          DoLocalInsert(agent, pos, content)
    /\ UNCHANGED shown

ReplayDeleteStep ==
    /\ Len(Log.Ops) < MaxReplayOps
    /\ \E agent \in Agents, pos \in 0..MaxPos : DoLocalDelete(agent, pos)
    /\ UNCHANGED shown

ReplayIntegrateStep ==
    /\ Len(Log.Ops) < MaxReplayOps
    /\ \E op \in ListOps, agent \in Agents, rawParents \in RawParentChoices(Log.CG) :
          DoIntegrate(op, agent, rawParents)

\* The LV in the second walker of the operation with LV v in the first.
ReplayedAs(v) == Min({k \in 1..Len(replayed) : replayed[k] = v}) - 1

\* walker2.Integrate(op, agent, rawParents) for the operation with LV v of
\* the first walker.
DoReplay(v) ==
    LET raw == LVToRaw(Log.CG, v).raw
        parents == ParentsOfLV(Log.CG, v).parents
        rawParents == Slice([i \in 1..Len(parents) |->
                                LVToRaw(Log2.CG, ReplayedAs(parents[i])).raw])
        r == Integrate(Log2, Ctx2, Log.Ops[v + 1], raw.Agent, rawParents)
    IN /\ v \notin Range(replayed)
       /\ Range(ParentsOfLV(Log.CG, v).parents) \subseteq Range(replayed)
       /\ NextSeqForAgent(Log2.CG, raw.Agent) = raw.Seq
       /\ Log2' = r.log
       /\ Ctx2' = r.ctx
       /\ replayed' = IF r.err THEN replayed ELSE Append(replayed, v)
       /\ ret' = [NoRet EXCEPT !.call = "replay", !.op = Log.Ops[v + 1],
                               !.lv = r.lv, !.err = r.err, !.clean = ret.clean]
       /\ UNCHANGED <<Log, Ctx, shown>>

ReplayStep == \E v \in 0..(Log.CG.NextLV - 1) : DoReplay(v)

NextReplay ==
    \/ ReplayInsertStep
    \/ ReplayDeleteStep
    \/ ReplayIntegrateStep
    \/ ReplayStep

SpecReplay == Init /\ [][NextReplay]_vars

----------------------------------------------------------------------------
(* SpecRedeliver: as SpecReplay, and an operation the second walker has    *)
(* integrated may be delivered to it again: Integrate is called once more  *)
(* with the same op, the same agent and the same parents.                  *)

RedeliverInsertStep ==
    /\ Len(Log.Ops) < MaxRedeliverOps
    /\ \E agent \in Agents, pos \in 0..MaxPos, content \in Contents :
          DoLocalInsert(agent, pos, content)
    /\ UNCHANGED shown

RedeliverDeleteStep ==
    /\ Len(Log.Ops) < MaxRedeliverOps
    /\ \E agent \in Agents, pos \in 0..MaxPos : DoLocalDelete(agent, pos)
    /\ UNCHANGED shown

RedeliverIntegrateStep ==
    /\ Len(Log.Ops) < MaxRedeliverOps
    /\ \E op \in ListOps, agent \in Agents, rawParents \in RawParentChoices(Log.CG) :
          DoIntegrate(op, agent, rawParents)

FirstDeliveryStep == \E v \in 0..(Log.CG.NextLV - 1) : DoReplay(v)

\* walker2.Integrate(op, agent, rawParents) once more for the operation with
\* LV v of the first walker, which the second walker has integrated.
DoRedeliver(v) ==
    LET raw == LVToRaw(Log.CG, v).raw
        parents == ParentsOfLV(Log.CG, v).parents
        rawParents == Slice([i \in 1..Len(parents) |->
                                LVToRaw(Log2.CG, ReplayedAs(parents[i])).raw])
        r == Integrate(Log2, Ctx2, Log.Ops[v + 1], raw.Agent, rawParents)
    IN /\ v \in Range(replayed)
       /\ Len(Log2.Ops) <= MaxRedeliverOps
       /\ Log2' = r.log
       /\ Ctx2' = r.ctx
       /\ replayed' = IF r.err THEN replayed ELSE Append(replayed, v)
       /\ ret' = [NoRet EXCEPT !.call = "redeliver", !.op = Log.Ops[v + 1],
                               !.target = <<v>>, !.lv = r.lv, !.err = r.err,
                               !.clean = ret.clean]
       /\ UNCHANGED <<Log, Ctx, shown>>

RedeliverStep == \E v \in 0..(Log.CG.NextLV - 1) : DoRedeliver(v)

NextRedeliver ==
    \/ RedeliverInsertStep
    \/ RedeliverDeleteStep
    \/ RedeliverIntegrateStep
    \/ FirstDeliveryStep
    \/ RedeliverStep

SpecRedeliver == Init /\ [][NextRedeliver]_vars

----------------------------------------------------------------------------
(* SpecCheckout: the public operations that change a walker, called by one *)
(* agent with any parents, and Checkout of any frontier of the graph and   *)
(* of two frontiers outside it.                                            *)

CheckoutInsertStep ==
    /\ Len(Log.Ops) < MaxCheckoutOps
    /\ \E agent \in EditAgents, pos \in 0..MaxPos, content \in Contents :
          DoLocalInsert(agent, pos, content)
    /\ UNCHANGED shown

CheckoutDeleteStep ==
    /\ Len(Log.Ops) < MaxCheckoutOps
    /\ \E agent \in EditAgents, pos \in 0..MaxPos : DoLocalDelete(agent, pos)
    /\ UNCHANGED shown

CheckoutIntegrateStep ==
    /\ Len(Log.Ops) < MaxCheckoutOps
    /\ \E op \in ListOps, agent \in EditAgents, rawParents \in RawParentChoices(Log.CG) :
          DoIntegrate(op, agent, rawParents)

CheckoutStep == \E targetVersion \in TargetFrontiers(Log.CG) : DoCheckout(targetVersion)

NextCheckout ==
    \/ CheckoutInsertStep
    \/ CheckoutDeleteStep
    \/ CheckoutIntegrateStep
    \/ CheckoutStep

SpecCheckout == Init /\ [][NextCheckout]_vars

----------------------------------------------------------------------------
(* SpecGraph: the causal graph on its own. AddRaw is called with any id    *)
(* (next in sequence, already there, ahead of the sequence), any length    *)
(* from 0 and any parents: nil, versions of the graph, or an unknown one.  *)
(* Log.CG is the graph; ret holds the arguments and results of the call.   *)

\* AddRaw(cg, id, length, rawParents)
DoAddRaw(id, length, rawParents) ==
    LET r == AddRaw(Log.CG, id, length, rawParents)
    IN /\ Log' = [Log EXCEPT !.CG = r.cg]
       /\ ret' = [call |-> "AddRaw", id |-> id, length |-> length,
                  rawParents |-> rawParents, entry |-> r.entry,
                  entryNil |-> r.entryNil, err |-> r.err, clean |-> ret.clean]
       /\ UNCHANGED <<Ctx, Log2, Ctx2, shown, replayed>>

AddRawStep ==
    /\ Log.CG.NextLV < MaxGraphLVs
    /\ \E agent \in Agents, seq \in 0..MaxSeq, length \in 0..MaxRunLen,
          rawParents \in RawParentChoices(Log.CG) \cup {NilSlice} :
          DoAddRaw([Agent |-> agent, Seq |-> seq], length, rawParents)

NextGraph == AddRawStep

SpecGraph == Init /\ [][NextGraph]_vars

----------------------------------------------------------------------------
(* SpecQuery: a graph is built by AddRaw calls of one agent, each with the *)
(* agent's next sequence number, a run length from 1 and parents that are  *)
(* nil or any set of versions of the graph; then one ancestry query is     *)
(* asked on it. ret holds the arguments and the result of the query.       *)

\* Version lists handed to the queries: every set of LVs of the graph in
\* ascending order, and every pair of LVs in any order, repeats included.
QueryLists(cg) ==
    GraphFrontiers(cg) \cup {<<a, b>> : a, b \in 0..(cg.NextLV - 1)}

GraphBuilt == ret.call \in {"init", "AddRaw"}

QueryAddRawStep ==
    /\ GraphBuilt
    /\ \E agent \in EditAgents, length \in 1..MaxRunLen,
          rawParents \in (RawParentChoices(Log.CG) \cup {NilSlice})
                             \ {Slice(<<[Agent |-> UnknownAgent, Seq |-> 0]>>)} :
          /\ Log.CG.NextLV + length <= MaxQueryLVs
          /\ DoAddRaw([Agent |-> agent, Seq |-> NextSeqForAgent(Log.CG, agent)],
                      length, rawParents)

\* FindDominators(cg, versions)
DoFindDominators(versions) ==
    LET r == FindDominators(Log.CG, versions)
    IN /\ ret' = [call |-> "FindDominators", versions |-> versions,
                  lvs |-> r.lvs, err |-> r.err]
       /\ UNCHANGED <<Log, Ctx, Log2, Ctx2, shown, replayed>>

\* CompareVersions(cg, a, b)
DoCompareVersions(a, b) ==
    /\ ret' = [call |-> "CompareVersions", a |-> a, b |-> b,
               rel |-> CompareVersions(Log.CG, a, b)]
    /\ UNCHANGED <<Log, Ctx, Log2, Ctx2, shown, replayed>>

\* VersionContainsLV(cg, frontier, targetLV)
DoVersionContainsLV(frontier, targetLV) ==
    LET r == VersionContainsLV(Log.CG, frontier, targetLV)
    IN /\ ret' = [call |-> "VersionContainsLV", frontier |-> frontier,
                  targetLV |-> targetLV, val |-> r.val, err |-> r.err]
       /\ UNCHANGED <<Log, Ctx, Log2, Ctx2, shown, replayed>>

\* IterVersionsBetween(cg, from, to, fn) with fn recording its calls and
\* never stopping.
DoIterVersionsBetween(from, to) ==
    LET r == IterVersionsBetween(Log.CG, from, to)
    IN /\ ret' = [call |-> "IterVersionsBetween", from |-> from, to |-> to,
                  visits |-> r.visits, err |-> r.err]
       /\ UNCHANGED <<Log, Ctx, Log2, Ctx2, shown, replayed>>

FindDominatorsStep ==
    /\ GraphBuilt
    /\ \E versions \in QueryLists(Log.CG) : DoFindDominators(versions)

CompareVersionsStep ==
    /\ GraphBuilt
    /\ \E a, b \in 0..(Log.CG.NextLV - 1) : DoCompareVersions(a, b)

VersionContainsLVStep ==
    /\ GraphBuilt
    /\ \E frontier \in GraphFrontiers(Log.CG), targetLV \in 0..(Log.CG.NextLV - 1) :
          DoVersionContainsLV(frontier, targetLV)

IterVersionsBetweenStep ==
    /\ GraphBuilt
    /\ \E from \in GraphFrontiers(Log.CG), to \in 0..(Log.CG.NextLV - 1) :
          DoIterVersionsBetween(from, to)

NextQuery ==
    \/ QueryAddRawStep
    \/ FindDominatorsStep
    \/ CompareVersionsStep
    \/ VersionContainsLVStep
    \/ IterVersionsBetweenStep

SpecQuery == Init /\ [][NextQuery]_vars

----------------------------------------------------------------------------
(* SpecSummary: a graph is built by AddRaw calls of two agents, each with  *)
(* the agent's next sequence number, a run length from 1 and parents that  *)
(* are nil or any set of versions of the graph; then a frontier is         *)
(* summarized. ret holds the arguments and the result.                     *)

SummaryAddRawStep ==
    /\ GraphBuilt
    /\ \E agent \in Agents, length \in 1..MaxRunLen,
          rawParents \in (RawParentChoices(Log.CG) \cup {NilSlice})
                             \ {Slice(<<[Agent |-> UnknownAgent, Seq |-> 0]>>)} :
          /\ Log.CG.NextLV + length <= MaxSummaryLVs
          /\ DoAddRaw([Agent |-> agent, Seq |-> NextSeqForAgent(Log.CG, agent)],
                      length, rawParents)

\* SummarizeVersion(cg, frontier)
DoSummarizeVersion(frontier) ==
    LET r == SummarizeVersion(Log.CG, frontier)
    IN /\ ret' = [call |-> "SummarizeVersion", frontier |-> frontier,
                  summary |-> r.summary, err |-> r.err]
       /\ UNCHANGED <<Log, Ctx, Log2, Ctx2, shown, replayed>>

\* summary, err := SummarizeVersion(cg, to); Diff(cg, from, summary)
DoDiff(from, to) ==
    LET s == SummarizeVersion(Log.CG, to)
        r == Diff(Log.CG, from, s.summary)
    IN /\ ret' = [call |-> "Diff", from |-> from, to |-> to,
                  summary |-> s.summary, ranges |-> r.ranges,
                  err |-> s.err \/ r.err]
       /\ UNCHANGED <<Log, Ctx, Log2, Ctx2, shown, replayed>>

SummarizeVersionStep ==
    /\ GraphBuilt
    /\ \E frontier \in GraphFrontiers(Log.CG) : DoSummarizeVersion(frontier)

DiffStep ==
    /\ GraphBuilt
    /\ \E from \in GraphFrontiers(Log.CG), to \in GraphFrontiers(Log.CG) :
          DoDiff(from, to)

NextSummary ==
    \/ SummaryAddRawStep
    \/ SummarizeVersionStep

SpecSummary == Init /\ [][NextSummary]_vars

\* SpecDiff: on the same graphs, the summary of one frontier is handed to
\* Diff with another.
NextDiff ==
    \/ SummaryAddRawStep
    \/ DiffStep

SpecDiff == Init /\ [][NextDiff]_vars

----------------------------------------------------------------------------
(* SpecBounds: on a graph built as in SpecQuery, or on the empty graph,    *)
(* one ancestry query is asked with versions from -1 to NextLV, the        *)
(* versions next to the graph on either side included.                     *)

BoundsLVs(cg) == (-1)..cg.NextLV

\* Version lists of at most two members, in any order, repeats included.
BoundsLists(cg) ==
    {<<>>} \cup {<<a>> : a \in BoundsLVs(cg)}
           \cup {<<a, b>> : a, b \in BoundsLVs(cg)}

BoundsAddRawStep ==
    /\ GraphBuilt
    /\ \E agent \in EditAgents, length \in 1..MaxRunLen,
          rawParents \in (RawParentChoices(Log.CG) \cup {NilSlice})
                             \ {Slice(<<[Agent |-> UnknownAgent, Seq |-> 0]>>)} :
          /\ Log.CG.NextLV + length <= MaxBoundsLVs
          /\ DoAddRaw([Agent |-> agent, Seq |-> NextSeqForAgent(Log.CG, agent)],
                      length, rawParents)

BoundsContainsStep ==
    /\ GraphBuilt
    /\ \E frontier \in BoundsLists(Log.CG), targetLV \in BoundsLVs(Log.CG) :
          DoVersionContainsLV(frontier, targetLV)

BoundsSummarizeStep ==
    /\ GraphBuilt
    /\ \E frontier \in BoundsLists(Log.CG) : DoSummarizeVersion(frontier)

BoundsDiffStep ==
    /\ GraphBuilt
    /\ \E from \in BoundsLists(Log.CG), to \in GraphFrontiers(Log.CG) :
          DoDiff(from, to)

BoundsDominatorsStep ==
    /\ GraphBuilt
    /\ \E versions \in BoundsLists(Log.CG) : DoFindDominators(versions)

BoundsCompareStep ==
    /\ GraphBuilt
    /\ \E a, b \in BoundsLVs(Log.CG) : DoCompareVersions(a, b)

BoundsIterStep ==
    /\ GraphBuilt
    /\ \E from \in BoundsLists(Log.CG), to \in BoundsLVs(Log.CG) :
          DoIterVersionsBetween(from, to)

NextBounds ==
    \/ BoundsAddRawStep
    \/ BoundsContainsStep
    \/ BoundsSummarizeStep
    \/ BoundsDiffStep
    \/ BoundsDominatorsStep
    \/ BoundsCompareStep
    \/ BoundsIterStep

SpecBounds == Init /\ [][NextBounds]_vars

----------------------------------------------------------------------------
(* SpecIntersect: a graph is built by AddRaw calls of two agents, each     *)
(* with the agent's next sequence number, a run of any length that fits    *)
(* and parents that are nil or any set of versions of the graph; then the  *)
(* graph is intersected with a summary. ret holds the summary and both     *)
(* results.                                                                *)

\* Ranges [s, e) of sequence numbers, some of them beyond the graph.
SummaryRanges == {<<s, e>> : s \in 0..MaxIntersectLVs, e \in 1..(MaxIntersectLVs + 1)}
                     \ {<<s, e>> \in (0..MaxIntersectLVs) \X (1..(MaxIntersectLVs + 1)) :
                            e <= s}

\* The range lists of one agent: one range, or two with a gap between them.
SummaryRangeLists ==
    {<<r>> : r \in SummaryRanges}
        \cup {l \in {<<r1, r2>> : r1 \in SummaryRanges, r2 \in SummaryRanges} :
                 l[2][1] > l[1][2]}

\* The summaries handed over: any range list for the first agent, nothing,
\* the first sequence number or every sequence number for the second, and
\* with or without an agent the graph does not know.
Summaries ==
    LET first == {EmptyMap} \cup {[a \in {"A"} |-> l] : l \in SummaryRangeLists}
        second == {EmptyMap}
                      \cup {[a \in {"B"} |-> l] :
                               l \in {<<<<0, 1>>>>, <<<<0, MaxIntersectLVs + 1>>>>}}
        unknown == {EmptyMap, [a \in {UnknownAgent} |-> <<<<0, 1>>>>]}
    IN {f @@ g @@ h : f \in first, g \in second, h \in unknown}

IntersectAddRawStep ==
    /\ GraphBuilt
    /\ \E agent \in Agents, length \in 1..MaxIntersectLVs,
          rawParents \in (RawParentChoices(Log.CG) \cup {NilSlice})
                             \ {Slice(<<[Agent |-> UnknownAgent, Seq |-> 0]>>)} :
          /\ Log.CG.NextLV + length <= MaxIntersectLVs
          /\ DoAddRaw([Agent |-> agent, Seq |-> NextSeqForAgent(Log.CG, agent)],
                      length, rawParents)

\* IntersectWithSummaryFull(cg, summary); IntersectWithSummary(cg, summary)
DoIntersectWithSummary(summary) ==
    LET returns(full, lvs) ==
            ret' = [call |-> "IntersectWithSummary", summary |-> summary,
                    entries |-> full.entries, lvs |-> lvs.lvs,
                    err |-> full.err \/ lvs.err]
    IN /\ returns(IntersectWithSummaryFull(Log.CG, summary),
                  IntersectWithSummary(Log.CG, summary))
       /\ UNCHANGED <<Log, Ctx, Log2, Ctx2, shown, replayed>>

IntersectWithSummaryStep ==
    /\ GraphBuilt
    /\ \E summary \in Summaries : DoIntersectWithSummary(summary)

NextIntersect ==
    \/ IntersectAddRawStep
    \/ IntersectWithSummaryStep

SpecIntersect == Init /\ [][NextIntersect]_vars

----------------------------------------------------------------------------
(* SpecRoundTrip: a walker performs local edits and then retreats to a     *)
(* version of its graph. shown holds the list after each edit.             *)

RoundTripInsertStep ==
    /\ ret.call # "retreat"
    /\ Len(Log.Ops) < MaxRoundTripOps
    /\ \E agent \in EditAgents, pos \in 0..MaxPos, content \in Contents :
          DoLocalInsert(agent, pos, content)
    /\ shown' = Append(shown, GetActiveItems(Log', Ctx'))

RoundTripDeleteStep ==
    /\ ret.call # "retreat"
    /\ Len(Log.Ops) < MaxRoundTripOps
    /\ \E agent \in EditAgents, pos \in 0..MaxPos : DoLocalDelete(agent, pos)
    /\ shown' = Append(shown, GetActiveItems(Log', Ctx'))

RoundTripRetreatStep ==
    /\ ret.call # "retreat"
    /\ \E targetLV \in 0..(Log.CG.NextLV - 1) : DoRetreat(targetLV)

NextRoundTrip ==
    \/ RoundTripInsertStep
    \/ RoundTripDeleteStep
    \/ RoundTripRetreatStep

SpecRoundTrip == Init /\ [][NextRoundTrip]_vars

----------------------------------------------------------------------------
(* SpecRetreat: operations are integrated, local and remote, the context   *)
(* is merged to several versions at once after some of them, and then      *)
(* either retreat or retreatOp is called once.                             *)

\* walker.retreatOp(lv)
DoRetreatOp(lv) ==
    LET r == retreatOp(Log, Ctx, lv)
    IN /\ Ctx' = r.ctx
       /\ ret' = ContextRet("retreatOp", <<lv>>, r)
       /\ UNCHANGED <<Log, Log2, Ctx2, shown, replayed>>

\* The operations integrated: retreat and retreatOp never read the content.
RetreatOps == {op \in ListOps : op.Content # "y"}

RetreatPending == ret.call \notin {"retreat", "retreatOp"}

RetreatIntegrateStep ==
    /\ RetreatPending
    /\ Len(Log.Ops) < MaxRetreatOps
    /\ \E op \in RetreatOps, agent \in EditAgents,
          rawParents \in RawParentChoices(Log.CG) \cup {NilSlice} :
          DoIntegrate(op, agent, rawParents)

RetreatMergeStep ==
    /\ ret.call = "Integrate"
    /\ \E targetVersion \in GraphFrontiers(Log.CG) :
          /\ Len(targetVersion) > 1
          /\ DoMerge(targetVersion)

RetreatTargetStep ==
    /\ RetreatPending
    /\ \E targetLV \in 0..(Log.CG.NextLV - 1) : DoRetreat(targetLV)

RetreatOpStep ==
    /\ RetreatPending
    /\ \E lv \in 0..(Log.CG.NextLV - 1) : DoRetreatOp(lv)

NextRetreat ==
    \/ RetreatIntegrateStep
    \/ RetreatMergeStep
    \/ RetreatTargetStep
    \/ RetreatOpStep

SpecRetreat == Init /\ [][NextRetreat]_vars

----------------------------------------------------------------------------
(* SpecAdvance: operations are integrated, local and remote, and then the  *)
(* context is advanced once to a version of the graph.                     *)

\* opsToApply of advance in the order of the calls of applyOp: the visits of
\* IterVersionsBetween(CurVersion, targetLV), last visit first.
advanceOpsToApply(log, ctx, targetLV) ==
    LET reversed(visits) ==
            [i \in 1..Len(visits) |-> visits[Len(visits) + 1 - i].v]
    IN reversed(IterVersionsBetween(log.CG, ctx.CurVersion, targetLV).visits)

AdvanceIntegrateStep ==
    /\ ret.call # "advance"
    /\ Len(Log.Ops) < MaxAdvanceOps
    /\ \E op \in RetreatOps, agent \in EditAgents,
          rawParents \in RawParentChoices(Log.CG) \cup {NilSlice} :
          DoIntegrate(op, agent, rawParents)

AdvanceOnceStep ==
    /\ ret.call # "advance"
    /\ \E targetLV \in 0..(Log.CG.NextLV - 1) : DoAdvance(targetLV)

NextAdvance ==
    \/ AdvanceIntegrateStep
    \/ AdvanceOnceStep

SpecAdvance == Init /\ [][NextAdvance]_vars

----------------------------------------------------------------------------
(* SpecConcurrentDelete: a walker inserts locally, then deletes made by    *)
(* others on any versions of the graph are integrated, and then the        *)
(* context is merged to several versions at once.                          *)

ConcurrentInsertStep ==
    /\ ret.call \in {"init", "LocalInsert"}
    /\ Len(Log.Ops) < MaxConcurrentOps
    /\ \E agent \in EditAgents, pos \in 0..MaxPos, content \in Contents :
          DoLocalInsert(agent, pos, content)
    /\ UNCHANGED shown

ConcurrentDeleteStep ==
    /\ ret.call \in {"LocalInsert", "Integrate"}
    /\ Len(Log.Ops) < MaxConcurrentOps
    /\ \E op \in DeleteOps, agent \in EditAgents,
          rawParents \in RawParentChoices(Log.CG)
                             \ {Slice(<<[Agent |-> UnknownAgent, Seq |-> 0]>>)} :
          DoIntegrate(op, agent, rawParents)

ConcurrentMergeStep ==
    /\ ret.call = "Integrate"
    /\ \E targetVersion \in GraphFrontiers(Log.CG) :
          /\ Len(targetVersion) > 1
          /\ DoMerge(targetVersion)

NextConcurrentDelete ==
    \/ ConcurrentInsertStep
    \/ ConcurrentDeleteStep
    \/ ConcurrentMergeStep

SpecConcurrentDelete == Init /\ [][NextConcurrentDelete]_vars

----------------------------------------------------------------------------
(* SpecMerge: over a graph of integrated operations, two fresh contexts    *)
(* (as Checkout makes them) are merged to a frontier each and then both to *)
(* the union of the two frontiers.                                         *)

MergeIntegrateStep ==
    /\ Len(Log.Ops) < MaxMergeOps
    /\ ret.call \in {"init", "Integrate"}
    /\ \E op \in ListOps, agent \in EditAgents,
          rawParents \in RawParentChoices(Log.CG) :
          DoIntegrate(op, agent, rawParents)

UnionFrontier(f1, f2) == SortSet(Range(f1) \cup Range(f2))

\* ctx1 := newEditCtx().merge(f1); ctx2 := newEditCtx().merge(f2)
DoMergeFresh(f1, f2) ==
    LET r1 == merge(Log, newEditCtx, f1)
        r2 == merge(Log, newEditCtx, f2)
    IN /\ Ctx' = r1.ctx
       /\ Ctx2' = r2.ctx
       /\ ret' = [NoRet EXCEPT !.call = "mergeFresh", !.target = f1, !.target2 = f2,
                               !.err = r1.err \/ r2.err, !.clean = ret.clean]
       /\ UNCHANGED <<Log, Log2, shown, replayed>>

\* ctx1.merge(f1 + f2); ctx2.merge(f1 + f2)
DoMergeUnion ==
    LET u == UnionFrontier(ret.target, ret.target2)
        r1 == merge(Log, Ctx, u)
        r2 == merge(Log, Ctx2, u)
    IN /\ Ctx' = r1.ctx
       /\ Ctx2' = r2.ctx
       /\ ret' = [ret EXCEPT !.call = "mergeUnion", !.err = r1.err \/ r2.err]
       /\ UNCHANGED <<Log, Log2, shown, replayed>>

MergeFreshStep ==
    /\ ret.call \in {"init", "Integrate"}
    /\ \E f1 \in GraphFrontiers(Log.CG), f2 \in GraphFrontiers(Log.CG) :
          DoMergeFresh(f1, f2)

MergeUnionStep ==
    /\ ret.call = "mergeFresh"
    /\ ~ret.err
    /\ DoMergeUnion

NextMerge ==
    \/ MergeIntegrateStep
    \/ MergeFreshStep
    \/ MergeUnionStep

SpecMerge == Init /\ [][NextMerge]_vars

----------------------------------------------------------------------------
(* Reference notions the properties are stated with. They are defined from *)
(* the graph's entries and from sequences alone, not from the operations   *)
(* of the walker.                                                          *)

\* The parents of a version of the graph, read off the run that holds it.
ParentSet(cg, v) ==
    LET e == CHOOSE x \in Range(cg.Entries) : x.Version <= v /\ v < x.VEnd
    IN IF v = e.Version THEN Range(e.Parents) ELSE {v - 1}

\* The causal history of a set of versions: the versions and their ancestors.
RECURSIVE History(_, _)
History(cg, S) ==
    LET known == S \cap (0..(cg.NextLV - 1))
    IN IF known = {} THEN {}
       ELSE known \cup History(cg, UNION {ParentSet(cg, v) : v \in known})

Concurrent(cg, a, b) ==
    a # b /\ a \notin History(cg, {b}) /\ b \notin History(cg, {a})

\* A frontier: versions of the graph none of which is in the history of
\* another.
IsFrontier(cg, f) ==
    /\ \A i \in 1..Len(f) : f[i] \in 0..(cg.NextLV - 1)
    /\ \A i, j \in 1..Len(f) : i # j => Concurrent(cg, f[i], f[j])

InsertAt(s, pos, x) == SubSeq(s, 1, pos) \o <<x>> \o SubSeq(s, pos + 1, Len(s))

RemoveAt(s, pos) == SubSeq(s, 1, pos) \o SubSeq(s, pos + 2, Len(s))

IsInsert(log, v) == log.Ops[v + 1].Type = ListOpTypeInsert

\* How often the item of insert v is visible in a context.
VisibleCount(ctx, v) ==
    Cardinality({i \in 1..ctx.ItemsLen :
                    Items(ctx)[i].OpID = v /\ Items(ctx)[i].CurState = Inserted})

\* The key concurrent inserts with one origin_left are ordered by: the right
\* parent, -1 standing for infinity, then the insert LV.
TieBreakBefore(cg, a, b) ==
    LET rp(it) == IF it.RightParent = -1 THEN cg.NextLV ELSE it.RightParent
    IN rp(a) < rp(b) \/ (rp(a) = rp(b) /\ a.OpID < b.OpID)

\* The raw version resolves to an LV of the graph.
ResolvesToLV(cg, raw) == ~RawToLV(cg, raw.Agent, raw.Seq).err

\* Some raw parent given to AddRaw does not resolve to an LV of the graph.
UnresolvedParent(cg, rawParents) ==
    /\ ~rawParents.isNil
    /\ \E i \in 1..Len(rawParents.list) : ~ResolvesToLV(cg, rawParents.list[i])

\* The raw version the agent gives its next operation.
NextRaw(cg, agent) == [Agent |-> agent, Seq |-> NextSeqForAgent(cg, agent)]

\* The result r of AddRaw(cg, id, length, _), if it is an entry, is the run
\* of the LVs from cg.NextLV to cg.NextLV + length - 1: they carry the raw
\* versions from id on, NextLV is behind them, and the LVs the graph had
\* carry the raw versions they carried.
AllocatesNextLVs(cg, id, length, r) ==
    (~r.err /\ ~r.entryNil)
    => /\ r.entry.Version = cg.NextLV
       /\ r.entry.VEnd = cg.NextLV + length
       /\ r.cg.NextLV = cg.NextLV + length
       /\ \A k \in 0..(length - 1) :
             LVToRaw(r.cg, cg.NextLV + k) =
                 [found |-> TRUE, raw |-> [Agent |-> id.Agent, Seq |-> id.Seq + k]]
       /\ \A v \in 0..(cg.NextLV - 1) : LVToRaw(r.cg, v) = LVToRaw(cg, v)

----------------------------------------------------------------------------
(* Properties.                                                             *)

\* C1: when the second walker has integrated every operation of the first,
\* each with the agent and parents it has there, in another topological
\* order of the graph, both walkers' Checkout at the frontier of all heads
\* succeeds or fails alike and returns the same snapshot.
ReplayConvergence ==
    LET same(b1, b2) == b1.err = b2.err /\ b1.Snapshot = b2.Snapshot
    IN (/\ Len(replayed) = Len(Log.Ops)
        /\ \E k \in 1..Len(replayed) : replayed[k] # k - 1)
       => same(Checkout(Log, Log.CG.Heads), Checkout(Log2, Log2.CG.Heads))

\* C2: for a walker built by LocalInsert and LocalDelete calls alone, for
\* every version v of its history Checkout([v]) succeeds and its snapshot is
\* the list GetActiveItems returned right after the operation with LV v.
CheckoutMatchesShown ==
    LET matches(b, v) == ~b.err /\ b.Snapshot = shown[v + 1]
    IN Len(shown) = Len(Log.Ops)
       => \A v \in 0..(Len(Log.Ops) - 1) : matches(Checkout(Log, <<v>>), v)

\* C3: a successful LocalInsert(agent, pos, content) with pos no larger than
\* the number of visible items makes GetActiveItems the list it was before
\* with content inserted at visible index pos.
LocalInsertAtVisibleIndex ==
    [][(/\ ret'.call = "LocalInsert"
        /\ ~ret'.err
        /\ Len(Log'.Ops) = Len(Log.Ops) + 1
        /\ ret'.op.Pos <= Len(GetActiveItems(Log, Ctx)))
       => GetActiveItems(Log', Ctx')
              = InsertAt(GetActiveItems(Log, Ctx), ret'.op.Pos, ret'.op.Content)]_vars

\* C4: a successful LocalDelete(agent, pos) returning v, with pos smaller
\* than the number of visible items, removes exactly the element at visible
\* index pos from GetActiveItems: that item becomes Deleted, DelTargets[v]
\* is its insert LV, and no other item changes.
LocalDeleteRemovesOne ==
    [][(/\ ret'.call = "LocalDelete"
        /\ ~ret'.err
        /\ Len(Log'.Ops) = Len(Log.Ops) + 1
        /\ ret'.op.Pos < Len(GetActiveItems(Log, Ctx)))
       => LET i == VisibleIndex(Items(Ctx), ret'.op.Pos)
          IN /\ GetActiveItems(Log', Ctx')
                    = RemoveAt(GetActiveItems(Log, Ctx), ret'.op.Pos)
             /\ ret'.lv \in DOMAIN Ctx'.DelTargets
             /\ Ctx'.DelTargets[ret'.lv] = Items(Ctx)[i].OpID
             /\ Items(Ctx') = [Items(Ctx) EXCEPT ![i].CurState = Deleted]]_vars

\* C5: for two frontiers F1 and F2 of the graph, a fresh context merged to
\* F1 and then to the union of F1 and F2 shows the same GetActiveItems as a
\* fresh context merged to F2 and then to the union.
MergeCommutes ==
    (/\ ret.call = "mergeUnion"
     /\ ~ret.err
     /\ IsFrontier(Log.CG, ret.target)
     /\ IsFrontier(Log.CG, ret.target2))
    => GetActiveItems(Log, Ctx) = GetActiveItems(Log, Ctx2)

\* C6: a context merged to the frontier {a, b} of two concurrent inserts
\* shows every insert of the history of {a, b} exactly once (histories
\* without deletes, in which every insert stays visible).
ConcurrentInsertsMerged ==
    (/\ ret.call = "mergeFresh"
     /\ ~ret.err
     /\ Len(ret.target) = 2
     /\ IsFrontier(Log.CG, ret.target)
     /\ \A v \in History(Log.CG, Range(ret.target)) : IsInsert(Log, v))
    => \A v \in History(Log.CG, Range(ret.target)) : VisibleCount(Ctx, v) = 1

\* C7: two concurrent inserts with the same origin_left that are both
\* applied to the context stand in the order of their right parents (-1 as
\* infinity) and then of their insert LVs, whichever was applied first.
TieBreakOrder ==
    ret.clean
    => \A i, j \in 1..Ctx.ItemsLen :
          LET a == Items(Ctx)[i]
              b == Items(Ctx)[j]
          IN (/\ i < j
              /\ a.CurState = Inserted
              /\ b.CurState = Inserted
              /\ a.OriginLeft = b.OriginLeft
              /\ Concurrent(Log.CG, a.OpID, b.OpID))
             => TieBreakBefore(Log.CG, a, b)

\* C8: after every call of LocalInsert, LocalDelete or Integrate, failed or
\* not, the log is as long as the graph (len(Log.Ops) = CG.NextLV); a
\* successful call returns an LV of the graph at whose index the log holds
\* the call's op, and the ops at the earlier indexes stay.
LogMatchesGraph ==
    [][/\ Len(Log'.Ops) = Log'.CG.NextLV
       /\ \A k \in 1..Len(Log.Ops) : k <= Len(Log'.Ops) /\ Log'.Ops[k] = Log.Ops[k]
       /\ ~ret'.err => /\ LVToRaw(Log'.CG, ret'.lv).found
                       /\ ~LVToRaw(Log.CG, ret'.lv).found
                       /\ Log'.Ops[ret'.lv + 1] = ret'.op]_vars

\* C8's case: a call has failed in a walker that holds an operation.
FailedCallOnLog == ret.err /\ Len(Log.Ops) >= 1

\* C9: in every state reached by successful calls, an item that is Inserted
\* or Deleted has its insert LV in the causal history of Ctx.CurVersion, and
\* an item that is NotYetInserted has it outside.
EditContextInvariant ==
    ret.clean
    => \A i \in 1..Ctx.ItemsLen :
          LET it == Items(Ctx)[i]
              inHistory == it.OpID \in History(Log.CG, Range(Ctx.CurVersion))
          IN /\ it.CurState \in {Inserted, Deleted} => inHistory
             /\ it.CurState = NotYetInserted => ~inHistory

\* C10: for every v in ItemsByLV, what ItemsByLV[v] points at is the record
\* of Items whose op_id is v, cur_state included.
ItemsByLVPointsAtItem ==
    \A v \in DOMAIN Ctx.ItemsByLV :
        /\ IndexOfOpID(Items(Ctx), v) # 0
        /\ Deref(Ctx, Ctx.ItemsByLV[v]) = Items(Ctx)[IndexOfOpID(Items(Ctx), v)]

\* C11: right after LocalInsert or LocalDelete has returned the LV v,
\* GetVersion() is [v], and v is the last LV of the graph.
FrontierIsReturnedLV ==
    (ret.call \in {"LocalInsert", "LocalDelete"} /\ ~ret.err)
    => /\ GetVersion(Ctx) = <<ret.lv>>
       /\ ret.lv = Log.CG.NextLV - 1

\* C11's case: a local edit has returned the LV of a second operation.
LocalEditReturnedLV ==
    ret.call \in {"LocalInsert", "LocalDelete"} /\ ~ret.err /\ ret.lv >= 1

\* C12: the parents recorded for the operation of a LocalInsert or
\* LocalDelete are exactly the LVs of Ctx.CurVersion at the time of the call.
LocalParentsAreFrontier ==
    [][(ret'.call \in {"LocalInsert", "LocalDelete"} /\ ~ret'.err)
       => ParentSet(Log'.CG, ret'.lv) = Range(Ctx.CurVersion)]_vars

\* C13: a successful Integrate with parents supplied by the caller leaves
\* Items, ItemsByLV, DelTargets and CurVersion as they were.
RemoteIntegrateKeepsContext ==
    [][(ret'.call = "Integrate" /\ ~ret'.err) => Ctx' = Ctx]_vars

\* C13's case: Integrate with supplied parents has succeeded in a walker
\* whose context holds an item and whose frontier is behind the graph.
RemoteIntegrateOnEditedWalker ==
    /\ ret.call = "Integrate" /\ ~ret.err
    /\ Ctx.ItemsLen >= 1
    /\ Ctx.CurVersion # Log.CG.Heads

\* C14: a call of Integrate, LocalInsert or LocalDelete that returns an error
\* leaves Log.Ops, the causal graph and the edit context as they were.
FailedIntegrateChangesNothing ==
    [][(ret'.call \in {"Integrate", "LocalInsert", "LocalDelete"} /\ ret'.err)
       => (Log' = Log /\ Ctx' = Ctx)]_vars

\* C14's case: Integrate has failed in a walker that holds an operation and
\* an item.
FailedIntegrateOnEditedWalker ==
    ret.call = "Integrate" /\ ret.err /\ Len(Log.Ops) >= 1 /\ Ctx.ItemsLen >= 1

\* C15: when an operation the walker has integrated is integrated again (same
\* op, agent and parents, hence the same (agent, seq) identity), the call
\* succeeds, returns the LV of the first time, and leaves the log, the
\* causal graph and the context as they were.
RedeliveryIsIdempotent ==
    [][ret'.call = "redeliver"
       => /\ ~ret'.err
          /\ ret'.lv = ReplayedAs(ret'.target[1])
          /\ Log2' = Log2
          /\ Ctx2' = Ctx2]_vars

\* C16: Checkout(F), for a frontier F within the graph or not, leaves
\* Log.Ops, the causal graph and the edit context of the walker as they were.
CheckoutKeepsWalker ==
    [][ret'.call = "Checkout" => (Log' = Log /\ Ctx' = Ctx)]_vars

\* C16's case: Checkout has returned a non-empty snapshot of a version other
\* than the frontier of the walker, whose context holds an item.
CheckoutOfEditedWalker ==
    /\ ret.call = "Checkout" /\ ~ret.err
    /\ Len(ret.snapshot) >= 1
    /\ Ctx.ItemsLen >= 1
    /\ ret.target # Ctx.CurVersion

GapIsRejected ==
    [][(ret'.call = "AddRaw" /\ ret'.id.Seq > NextSeqForAgent(Log.CG, ret'.id.Agent))
       => (ret'.err /\ Log'.CG = Log.CG)]_vars

DenseLVs ==
    /\ [](\A agent \in Agents, length \in 1..MaxRunLen :
             AllocatesNextLVs(Log.CG, NextRaw(Log.CG, agent), length,
                              AddRaw(Log.CG, NextRaw(Log.CG, agent), length,
                                     NilSlice)))
    /\ [][/\ Log'.CG.NextLV >= Log.CG.NextLV
          /\ \A v \in 0..(Log.CG.NextLV - 1) :
                LVToRaw(Log'.CG, v) = LVToRaw(Log.CG, v)
          /\ (ret'.call \in {"Integrate", "LocalInsert", "LocalDelete"} /\ ~ret'.err)
             => /\ ret'.lv = Len(Log.Ops)
                /\ ret'.lv = Log.CG.NextLV
                /\ Log'.CG.NextLV = Log.CG.NextLV + 1]_vars

\* C20's case: a call has returned the LV 1 in a graph of two agents.
SecondLVReturned ==
    /\ ret.call \in {"Integrate", "LocalInsert", "LocalDelete"} /\ ~ret.err
    /\ ret.lv = 1
    /\ Log.CG.NextLV = 2
    /\ Cardinality(DOMAIN Log.CG.AgentToVersion) = 2

\* ---------------------------------------------------------------------
\* Reference notions for the graph queries.

\* The LV has a descendant in the graph: it is a parent of some LV (within a
\* run, every LV but the last is the parent of the next one).
HasDescendant(cg, v) == \E w \in 0..(cg.NextLV - 1) : v \in ParentSet(cg, w)

\* C21: after any sequence of successful AddRaw calls, Heads is exactly the
\* set of LVs of the graph with no descendant, sorted ascending without
\* duplicates.
HeadsAreChildless ==
    /\ Range(Log.CG.Heads) =
           {v \in 0..(Log.CG.NextLV - 1) : ~HasDescendant(Log.CG, v)}
    /\ Log.CG.Heads = SortSet(Range(Log.CG.Heads))

\* The raw versions assigned to the LVs of the graph.
AssignedRaws(cg) == {LVToRaw(cg, v).raw : v \in 0..(cg.NextLV - 1)}

\* C22: after any sequence of AddRaw calls, the raw version LVToRaw gives for
\* an LV is resolved back to that LV by RawToLV, and RawToLV fails for every
\* raw version that was never assigned.
RawLVRoundTrip ==
    /\ \A v \in 0..(Log.CG.NextLV - 1) :
           LET k(r) == /\ r.found
                       /\ RawToLV(Log.CG, r.raw.Agent, r.raw.Seq) =
                              [lv |-> v, err |-> FALSE]
           IN k(LVToRaw(Log.CG, v))
    /\ \A agent \in Agents \cup {UnknownAgent}, seq \in 0..(MaxSeq + MaxRunLen) :
           [Agent |-> agent, Seq |-> seq] \notin AssignedRaws(Log.CG)
               => RawToLV(Log.CG, agent, seq).err

\* The version is an ancestor of, or equal to, the other one.
AncestorOrEqual(cg, a, b) == a \in History(cg, {b})

\* The common ancestors of a set of versions: the LVs in the history of
\* every one of them.
CommonAncestors(cg, V) ==
    {c \in 0..(cg.NextLV - 1) : \A v \in V : AncestorOrEqual(cg, c, v)}

\* C23: FindDominators of valid LVs returns exactly the maximal common
\* ancestors: every returned LV is an ancestor of or equal to every input,
\* none is a strict ancestor of another common ancestor, every common
\* ancestor is an ancestor of or equal to a returned LV; the result is [v]
\* for the single input v, repeated or not, empty for an empty input and for
\* disjoint histories, and sorted without duplicates.
DominatorsAreMaximalCommonAncestors ==
    ret.call = "FindDominators" =>
        LET V == Range(ret.versions)
            D == Range(ret.lvs)
            CA == CommonAncestors(Log.CG, V)
        IN /\ ~ret.err
           /\ ret.lvs = SortSet(D)
           /\ V = {} => ret.lvs = <<>>
           /\ V # {} =>
                /\ D \subseteq CA
                /\ \A d \in D : ~\E c \in CA : c # d /\ AncestorOrEqual(Log.CG, d, c)
                /\ \A c \in CA : \E d \in D : AncestorOrEqual(Log.CG, c, d)
                /\ CA = {} => ret.lvs = <<>>
           /\ \A v \in V : V = {v} => ret.lvs = <<v>>

\* FindDominators of two versions returned two common ancestors, neither of
\* them one of the two versions.
TwoDominatorsFound ==
    /\ ret.call = "FindDominators"
    /\ Len(ret.versions) = 2
    /\ Len(ret.lvs) = 2
    /\ Range(ret.lvs) \cap Range(ret.versions) = {}

\* C24: for any frontier F of valid LVs, FindDominators(F) is a subset of F.
DominatorsWithinFrontier ==
    (ret.call = "FindDominators" /\ IsFrontier(Log.CG, ret.versions)) =>
        /\ ~ret.err
        /\ Range(ret.lvs) \subseteq Range(ret.versions)

\* C24, amended: for any frontier F of valid LVs, every member of
\* FindDominators(F) is an ancestor of or equal to every member of F, and
\* FindDominators(F) is a subset of F when F has at most one member.
DominatorsWithinCommonHistory ==
    (ret.call = "FindDominators" /\ IsFrontier(Log.CG, ret.versions)) =>
        /\ ~ret.err
        /\ \A d \in Range(ret.lvs), v \in Range(ret.versions) :
               AncestorOrEqual(Log.CG, d, v)
        /\ Len(ret.versions) <= 1 => Range(ret.lvs) \subseteq Range(ret.versions)

\* FindDominators of a frontier of two versions returned a common ancestor
\* outside the frontier.
DominatorBelowFrontier ==
    /\ ret.call = "FindDominators"
    /\ IsFrontier(Log.CG, ret.versions)
    /\ Len(ret.versions) = 2
    /\ Len(ret.lvs) = 1
    /\ ret.lvs[1] \notin Range(ret.versions)

\* C25: FindDominators is idempotent: for any frontier F of valid LVs,
\* FindDominators(FindDominators(F)) = FindDominators(F).
DominatorsIdempotent ==
    (ret.call = "FindDominators" /\ IsFrontier(Log.CG, ret.versions)) =>
        /\ ~ret.err
        /\ FindDominators(Log.CG, ret.lvs) = [lvs |-> ret.lvs, err |-> FALSE]

\* C25, amended: for any frontier F of valid LVs whose FindDominators(F) has
\* at most one member, FindDominators(FindDominators(F)) = FindDominators(F).
SingleDominatorIdempotent ==
    (ret.call = "FindDominators" /\ IsFrontier(Log.CG, ret.versions)) =>
        /\ ~ret.err
        /\ Len(ret.lvs) <= 1 =>
               FindDominators(Log.CG, ret.lvs) = [lvs |-> ret.lvs, err |-> FALSE]

\* FindDominators of a frontier of two versions returned their one maximal
\* common ancestor, and FindDominators of that returns it again.
SingleDominatorFound ==
    /\ ret.call = "FindDominators"
    /\ IsFrontier(Log.CG, ret.versions)
    /\ Len(ret.versions) = 2
    /\ Len(ret.lvs) = 1
    /\ FindDominators(Log.CG, ret.lvs).lvs = ret.lvs

\* The relation of two versions by the parent relation.
RelationByHistory(cg, a, b) ==
    IF a = b THEN "eq"
    ELSE IF AncestorOrEqual(cg, a, b) THEN "ancestor"
    ELSE IF AncestorOrEqual(cg, b, a) THEN "descendant"
    ELSE "concurrent"

\* C28: for valid LVs a and b, CompareVersions(a, b) is equal iff a = b,
\* ancestor iff a is a strict ancestor of b, descendant iff b is a strict
\* ancestor of a, and concurrent otherwise; so it is ancestor iff
\* CompareVersions(b, a) is descendant; and VersionContainsLV(frontier, t) is
\* true iff t is an ancestor of or equal to some member of the frontier.
CompareMatchesHistory ==
    /\ ret.call = "CompareVersions" =>
          /\ ret.rel = RelationByHistory(Log.CG, ret.a, ret.b)
          /\ ret.rel = "ancestor" <=>
                 CompareVersions(Log.CG, ret.b, ret.a) = "descendant"
    /\ ret.call = "VersionContainsLV" =>
          /\ ~ret.err
          /\ ret.val <=> \E f \in Range(ret.frontier) :
                             AncestorOrEqual(Log.CG, ret.targetLV, f)

\* CompareVersions found a to be an ancestor of b that is not a parent of b.
DistantAncestorCompared ==
    /\ ret.call = "CompareVersions"
    /\ ret.rel = "ancestor"
    /\ ret.a \notin ParentSet(Log.CG, ret.b)

\* C29: IterVersionsBetween(from, to, fn) with a callback that never stops
\* calls fn on exactly the LVs in the history of to that are not in the
\* history of from, each exactly once, and on none when to is in the history
\* of a member of from.
IterVisitsHistoryDifference ==
    ret.call = "IterVersionsBetween" =>
        LET visited == {ret.visits[i].v : i \in 1..Len(ret.visits)}
        IN /\ ~ret.err
           /\ visited = History(Log.CG, {ret.to}) \ History(Log.CG, Range(ret.from))
           /\ Cardinality(visited) = Len(ret.visits)
           /\ ret.to \in History(Log.CG, Range(ret.from)) => ret.visits = <<>>

\* C30: IterVersionsBetween visits in reverse topological order: of two
\* visited LVs, one a strict ancestor of the other, fn is called on the
\* descendant first.
IterChildrenBeforeParents ==
    ret.call = "IterVersionsBetween" =>
        \A i, j \in 1..Len(ret.visits) :
            (/\ ret.visits[i].v # ret.visits[j].v
             /\ AncestorOrEqual(Log.CG, ret.visits[i].v, ret.visits[j].v))
                => j < i

\* The sequence numbers an agent has in the history of a frontier.
SeqsInHistory(cg, frontier, agent) ==
    {LVToRaw(cg, v).raw.Seq :
        v \in {w \in History(cg, Range(frontier)) : LVToRaw(cg, w).raw.Agent = agent}}

\* A set of numbers as sorted, merged half-open ranges <<start, end>>.
MergedRanges(S) ==
    LET starts == SortSet({s \in S : s - 1 \notin S})
    IN [k \in 1..Len(starts) |->
           <<starts[k], Min({e \in (starts[k] + 1)..(starts[k] + Cardinality(S)) :
                                e \notin S})>>]

\* C27: SummarizeVersion(frontier) gives each agent with an operation in the
\* history of the frontier its sequence numbers as sorted, merged ranges
\* (seqs 0 and 1 give the one range [0, 2)); agents without an operation in
\* the history are absent.
SummaryIsMerged ==
    ret.call = "SummarizeVersion" =>
        /\ ~ret.err
        /\ DOMAIN ret.summary =
               {a \in Agents : SeqsInHistory(Log.CG, ret.frontier, a) # {}}
        /\ \A a \in DOMAIN ret.summary :
               ret.summary[a] = MergedRanges(SeqsInHistory(Log.CG, ret.frontier, a))

\* C27, amended: SummarizeVersion(frontier) gives each agent with an
\* operation in the history of the frontier its sequence numbers in
\* ascending order as one range [seq, seq+1) each, adjacent ranges not
\* combined (seqs 0 and 1 give [0, 1), [1, 2)); agents without an operation
\* in the history are absent.
SummaryIsUnitRanges ==
    ret.call = "SummarizeVersion" =>
        /\ ~ret.err
        /\ DOMAIN ret.summary =
               {a \in Agents : SeqsInHistory(Log.CG, ret.frontier, a) # {}}
        /\ \A a \in DOMAIN ret.summary :
               LET seqs == SortSet(SeqsInHistory(Log.CG, ret.frontier, a))
               IN ret.summary[a] = [i \in 1..Len(seqs) |-> <<seqs[i], seqs[i] + 1>>]

\* A frontier was summarized whose history holds two operations of one agent
\* and none of another agent of the graph.
TwoSeqsSummarized ==
    /\ ret.call = "SummarizeVersion"
    /\ \E a \in DOMAIN ret.summary : Len(ret.summary[a]) = 2
    /\ DOMAIN ret.summary # DOMAIN Log.CG.AgentToVersion

\* A set of LVs as sorted, merged LVRanges.
LVRangesOf(S) ==
    LET m == MergedRanges(S)
    IN [k \in 1..Len(m) |-> [Start |-> m[k][1], End |-> m[k][2]]]

\* C26: for frontiers from and to with every member of to in the history of
\* from, Diff(from, SummarizeVersion(to)) returns the LVs of history(from)
\* that are not in history(to) as sorted, merged ranges, on graphs with runs
\* of length > 1 too; the result is empty whenever history(from) is within
\* history(to).
DiffIsHistoryDifference ==
    ret.call = "Diff" =>
        LET hFrom == History(Log.CG, Range(ret.from))
            hTo == History(Log.CG, Range(ret.to))
        IN /\ ~ret.err
           /\ Range(ret.to) \subseteq hFrom => ret.ranges = LVRangesOf(hFrom \ hTo)
           /\ hFrom \subseteq hTo => ret.ranges = <<>>

\* C31: when the last local operation of the walker has LV v >= 1 and was
\* performed at the frontier [p], retreat(p) succeeds, GetVersion() becomes
\* [p] and GetActiveItems() is the list it was before operation v was
\* applied.
RetreatUndoesLastEdit ==
    LET v == Len(Log.Ops) - 1
    IN (/\ ret.call = "retreat"
        /\ v >= 1
        /\ Len(shown) = Len(Log.Ops)
        /\ ParentSet(Log.CG, v) = Range(ret.target)) =>
           /\ ~ret.err
           /\ GetVersion(Ctx) = ret.target
           /\ GetActiveItems(Log, Ctx) = shown[v]

\* C32: retreat(-1) on a non-empty context succeeds and resets the edit
\* context: afterwards Items, ItemsByLV and DelTargets are empty and no item
\* is visible.
RetreatToRootResets ==
    [][(/\ ret'.call = "retreat"
        /\ ret'.target = <<-1>>
        /\ Ctx.ItemsLen > 0) =>
           /\ ~ret'.err
           /\ Ctx'.ItemsLen = 0
           /\ Ctx'.ItemsByLV = EmptyMap
           /\ Ctx'.DelTargets = EmptyMap
           /\ GetActiveItems(Log', Ctx') = <<>>]_vars

\* C33: retreat(target) with an LV target of the graph that is in the history
\* of no member of the non-empty current frontier returns an error and leaves
\* the edit context unchanged.
RetreatRejectsNonAncestor ==
    [][(/\ ret'.call = "retreat"
        /\ Len(Ctx.CurVersion) > 0
        /\ ret'.target[1] \in 0..(Log.CG.NextLV - 1)
        /\ ret'.target[1] \notin History(Log.CG, Range(Ctx.CurVersion))) =>
           /\ ret'.err
           /\ Ctx' = Ctx]_vars

\* A retreat to an LV concurrent with the current version was rejected.
NonAncestorRetreatRejected ==
    /\ ret.call = "retreat"
    /\ ret.err
    /\ Len(Ctx.CurVersion) > 0
    /\ ret.target[1] \in 0..(Log.CG.NextLV - 1)
    /\ ret.target[1] \notin History(Log.CG, Range(Ctx.CurVersion))

\* C34: VersionContainsLV, SummarizeVersion, Diff, FindDominators,
\* CompareVersions and IterVersionsBetween return an error whenever one of
\* their LV arguments (target, to, a, b, or a member of a frontier or
\* versions list) is outside [0, NextLV), on the empty graph and for equal
\* arguments too.
OutOfRangeIsRejected ==
    LET out(v) == v \notin 0..(Log.CG.NextLV - 1)
        anyOut(l) == \E i \in 1..Len(l) : out(l[i])
    IN /\ ret.call = "VersionContainsLV" =>
              ((out(ret.targetLV) \/ anyOut(ret.frontier)) => ret.err)
       /\ ret.call = "SummarizeVersion" => (anyOut(ret.frontier) => ret.err)
       /\ ret.call = "Diff" => (anyOut(ret.from) => ret.err)
       /\ ret.call = "FindDominators" => (anyOut(ret.versions) => ret.err)
       /\ ret.call = "CompareVersions" =>
              ((out(ret.a) \/ out(ret.b)) => ret.rel = "error")
       /\ ret.call = "IterVersionsBetween" =>
              ((out(ret.to) \/ anyOut(ret.from)) => ret.err)

\* C35: merge(F) on a fresh context, F a frontier of the graph, applies every
\* LV in the causal history of F exactly once: afterwards every insert of
\* history(F) has exactly one item and that item is not NotYetInserted, every
\* delete of history(F) has a DelTargets entry, and CurVersion = F.
FreshMergeAppliesHistory ==
    (ret.call = "mergeFresh" /\ IsFrontier(Log.CG, ret.target)) =>
        /\ \A v \in History(Log.CG, Range(ret.target)) :
              IF IsInsert(Log, v)
              THEN /\ Cardinality({i \in 1..Ctx.ItemsLen : Items(Ctx)[i].OpID = v}) = 1
                   /\ \A i \in 1..Ctx.ItemsLen :
                         Items(Ctx)[i].OpID = v =>
                             Items(Ctx)[i].CurState # NotYetInserted
              ELSE v \in DOMAIN Ctx.DelTargets
        /\ Ctx.CurVersion = ret.target

\* C36: a successful advance(target) applies exactly the LVs of
\* history(target) that are not in history(cur_version), each once and each
\* after all of its ancestors among them, and sets cur_version to [target].
AdvanceAppliesDifference ==
    [][(ret'.call = "advance" /\ ~ret'.err) =>
          LET target == ret'.target[1]
              ops == advanceOpsToApply(Log, Ctx, target)
          IN /\ Range(ops) = History(Log.CG, {target})
                                 \ History(Log.CG, Range(Ctx.CurVersion))
             /\ \A i, j \in 1..Len(ops) : i # j => ops[i] # ops[j]
             /\ \A i, j \in 1..Len(ops) :
                   (i < j) => ops[j] \notin History(Log.CG, {ops[i]})
             /\ Ctx'.CurVersion = <<target>>]_vars

\* C37: two concurrent deletes created on the same version p at the same
\* pos, p having only inserts in its history, were created to delete the
\* same item: the item at visible index pos of the document at p, which
\* holds the inserts of history(p) in the order of Items. After a merge to a
\* frontier containing both, each of the two deletes targets that item, the
\* item is Deleted, and when they are the only deletes no other item is.
ConcurrentDeletesShareTarget ==
    (ret.call = "merge" /\ ~ret.err) =>
        \A d1, d2 \in Range(ret.target) : \A p \in 0..(Log.CG.NextLV - 1) :
            LET docAt == SelectSeq([i \in 1..Ctx.ItemsLen |-> Items(Ctx)[i].OpID],
                                   LAMBDA v : v \in History(Log.CG, {p}))
                pos == Log.Ops[d1 + 1].Pos
                deletes == {v \in 0..(Log.CG.NextLV - 1) : ~IsInsert(Log, v)}
            IN (/\ d1 < d2
                /\ ~IsInsert(Log, d1) /\ ~IsInsert(Log, d2)
                /\ ParentSet(Log.CG, d1) = {p} /\ ParentSet(Log.CG, d2) = {p}
                /\ \A v \in History(Log.CG, {p}) : IsInsert(Log, v)
                /\ Log.Ops[d2 + 1].Pos = pos
                /\ pos < Len(docAt)) =>
                   /\ d1 \in DOMAIN Ctx.DelTargets /\ Ctx.DelTargets[d1] = docAt[pos + 1]
                   /\ d2 \in DOMAIN Ctx.DelTargets /\ Ctx.DelTargets[d2] = docAt[pos + 1]
                   /\ \A i \in 1..Ctx.ItemsLen :
                         /\ Items(Ctx)[i].OpID = docAt[pos + 1] =>
                                Items(Ctx)[i].CurState = Deleted
                         /\ (deletes = {d1, d2} /\ Items(Ctx)[i].OpID # docAt[pos + 1]) =>
                                Items(Ctx)[i].CurState # Deleted

\* C38: in every edit context reached by local operations, advance, retreat
\* and merge, Items holds at most one item per insert LV: an insert that is
\* applied again after a retreat re-uses its item.
OneItemPerInsert ==
    \A v \in 0..(Log.CG.NextLV - 1) :
        Cardinality({i \in 1..Ctx.ItemsLen : Items(Ctx)[i].OpID = v}) <= 1

\* C39: retreatOp on an LV that is not applied in the context (an insert with
\* no item, a delete with no DelTargets record) returns an error and changes
\* nothing; and after a successful retreatOp of a delete v, DelTargets has no
\* entry for v, also when the entry was -1.
RetreatOpChecksApplied ==
    [][ret'.call = "retreatOp" =>
          LET v == ret'.target[1]
              hasItem == \E i \in 1..Ctx.ItemsLen : Items(Ctx)[i].OpID = v
          IN /\ (IsInsert(Log, v) /\ ~hasItem) => (ret'.err /\ Ctx' = Ctx)
             /\ (~IsInsert(Log, v) /\ v \notin DOMAIN Ctx.DelTargets) =>
                    (ret'.err /\ Ctx' = Ctx)
             /\ (~IsInsert(Log, v) /\ ~ret'.err) => v \notin DOMAIN Ctx'.DelTargets]_vars

\* The entry of the graph that holds version v.
EntryOf(cg, v) == CHOOSE e \in Range(cg.Entries) : e.Version <= v /\ v < e.VEnd

\* The raw identity (agent, seq) of version v is within a range of the
\* summary.
RawCovered(cg, summary, v) ==
    LET e == EntryOf(cg, v)
        seq == e.Seq + (v - e.Version)
    IN /\ e.Agent \in DOMAIN summary
       /\ \E i \in 1..Len(summary[e.Agent]) :
             summary[e.Agent][i][1] <= seq /\ seq < summary[e.Agent][i][2]

\* The maximal slices [a, b) of uncovered versions within the entries of
\* the graph: the slice at an entry's first LV has the entry's parents, any
\* other slice has the version before it as its parent.
UncoveredSlices(cg, summary) ==
    LET open(v) == v \in 0..(cg.NextLV - 1) /\ ~RawCovered(cg, summary, v)
    IN {[Agent |-> e.Agent, Seq |-> e.Seq + (a - e.Version), Version |-> a,
         VEnd |-> b, Parents |-> IF a = e.Version THEN e.Parents ELSE <<a - 1>>] :
            <<e, a, b>> \in
                {t \in Range(cg.Entries) \X (0..cg.NextLV) \X (0..cg.NextLV) :
                    /\ t[1].Version <= t[2] /\ t[2] < t[3] /\ t[3] <= t[1].VEnd
                    /\ \A v \in t[2]..(t[3] - 1) : open(v)
                    /\ (t[2] = t[1].Version \/ ~open(t[2] - 1))
                    /\ (t[3] = t[1].VEnd \/ ~open(t[3]))}}

====
